---- MODULE Spec2Model ----
(***************************************************************************)
(* A model of the context-engineering core of CulinaMind's backend:       *)
(* the file-backed context store (ContextManager), the prompt assembler   *)
(* (PromptEngineer), the context optimizer (ContextOptimizer) and the     *)
(* knowledge retrieval of EnhancedRAGService.                             *)
(*                                                                         *)
(* Conventions.                                                            *)
(*  - An Optional value is a sequence of length 0 (None) or 1 (<<v>>).     *)
(*  - A Python dict with string keys is a set of <<key, value>> pairs.     *)
(*  - A datetime is <<"datetime", t>>; str() of it is <<"str", t>> and     *)
(*    isoformat() is <<"iso", t>>, t being the clock reading.              *)
(*  - A method of the store is an operator from a store state              *)
(*    [files, mtime, cache, disk_ok, now] to [st |-> new state, ret |-> ..]. *)
(***************************************************************************)
EXTENDS Integers, Sequences, FiniteSets, TLC

VARIABLES
    files,          \* storage root: directory -> file name -> JSON
    mtime,          \* directory -> file name -> time of the last write
    context_cache,  \* ContextManager.context_cache, split by key prefix
    disk_ok,        \* whether open() on the storage root succeeds
    now,            \* the wall clock read by datetime.now()
    appended,       \* per session: number of add_message_to_conversation calls
    saved_profile,  \* per user: the profile of the last successful save_user_profile call
    peer_cache,     \* context_cache of a second ContextManager over the same root
    requests,       \* the requests in flight, step by step
    otp_store,      \* auth.otp_store: email -> the OTP stored for it
    db,             \* the tables of the database: users and favorite recipes
    anthropic_mcp_validator, \* the shared validator: its server process and flag
    op,             \* the last operation and its arguments
    ret             \* what the last operation returned

vars == <<files, mtime, context_cache, disk_ok, now, appended, saved_profile,
          peer_cache, requests, otp_store, db, anthropic_mcp_validator, op, ret>>

---------------------------------------------------------------------------
(* Bounds of the model                                                     *)

Users == {"u1", "u2"}
Sessions == {"s1", "s2"}
\* the user and the session whose records Spec follows
StoreUsers == {"u1"}
StoreSessions == {"s1"}

\* add_message_to_conversation calls explored per session in SpecConv
MaxAppends == 52
\* add_message_to_conversation calls explored per session in Spec
MaxStoreAppends == 1

\* the exchanges appended to one session by the requests of the routes
MaxRouteAppends == 2

\* the exchanges of one session in the specification of several users
MaxIsolationAppends == 1

\* the requests that enter add_message_to_conversation in the specification
\* of concurrent requests
MaxRaceRequests == 3

\* the tested message lists are a list of up to MaxFilterBase messages
\* followed by MaxFilterTail copies of one message
MaxFilterBase == 3

MaxFilterTail == 9

\* the elements of the array in a tested model response
MaxRecipeElems == 2

\* the requests to the password reset routes in one behaviour
MaxAuthRequests == 4

\* the add_to_favorites requests in one behaviour
MaxFavoriteRequests == 3

\* the calls on the shared validator in one behaviour
MaxMcpCalls == 2

\* largest clock reading
MaxTime == 1
\* most fragments in a classified query
MaxFrags == 3
\* most characters of a truncated context
MaxContextLen == 5
\* most words of the query of a truncation
MaxQueryWords == 2
\* most tokens of a search query
MaxQueryTokens == 2
\* largest top_k of a search
MaxK == 2
\* most hits the vector index returns
MaxHits == 2

---------------------------------------------------------------------------
(* Generic helpers                                                         *)

None == <<>>
Some(v) == <<v>>
IsNone(o) == Len(o) = 0
The(o) == o[1]

\* dict[key] = value
Put(f, k, v) == [x \in (DOMAIN f) \cup {k} |-> IF x = k THEN v ELSE f[x]]

\* seq[-n:]
LastN(s, n) == IF Len(s) <= n THEN s ELSE SubSeq(s, Len(s) - n + 1, Len(s))

EmptyMap == [x \in {} |-> None]

\* bcrypt.generate_password_hash(password): the hash verifies that password
\* and no other; the salt is left out
PasswordHash(password) == <<"bcrypt", password>>

\* the database before any request: the users of the model are registered
\* under their id as email, with a first password, and nobody has a favorite
EmptyDb ==
    [password |-> [u \in Users |-> PasswordHash("pw0")], favorite_recipes |-> <<>>]

\* AnthropicMCPValidator(): no server process, not initialized; started is
\* the number of server processes launched so far
AnthropicMCPValidator == [server_process |-> None, initialized |-> FALSE, started |-> 0]

---------------------------------------------------------------------------
(* Files.  _get_file_path gives f"{storage_path}/{dir}/{identifier}.json"; *)
(* the file system resolves the ".." components of the identifier.         *)

\* the identifier "../profiles/u1" of a request, as path components
TraversalId == "../profiles/u1"

\* identifier.split("/")
PathParts(identifier) ==
    IF identifier = TraversalId THEN <<"..", "profiles", "u1">> ELSE <<identifier>>

RECURSIVE Resolve(_, _)
\* the components left when each ".." has removed the component before it
Resolve(done, parts) ==
    IF Len(parts) = 0 THEN done
    ELSE IF parts[1] = ".." /\ Len(done) > 0
    THEN Resolve(SubSeq(done, 1, Len(done) - 1), Tail(parts))
    ELSE Resolve(Append(done, parts[1]), Tail(parts))

\* the directory and the file the path of an identifier names
FileKey(dir, identifier) ==
    LET path == Resolve(<<>>, <<dir>> \o PathParts(identifier))
    IN  [dir |-> path[1], name |-> path[2]]

\* os.path.exists(file_path)
FileExists(st, key) ==
    key.dir \in DOMAIN st.files /\ key.name \in DOMAIN st.files[key.dir]

\* json.load(f)
ReadFile(st, key) == st.files[key.dir][key.name]

\* json.dump(data, f) on open(file_path, 'w')
WriteFile(st, key, data) ==
    [st EXCEPT !.files[key.dir] = Put(@, key.name, data),
               !.mtime[key.dir] = Put(@, key.name, st.now)]

\* cls(**data) raises TypeError on a key that is not a field of the class,
\* and when a field without default is missing
AcceptsKeywords(data, required, fields) ==
    required \subseteq DOMAIN data /\ DOMAIN data \subseteq fields

---------------------------------------------------------------------------
(* Timestamps and their serialisation                                      *)

Datetime(t) == <<"datetime", t>>
\* json.dump(..., default=str) on a datetime
DefaultStr(d) == IF d[1] = "datetime" THEN <<"str", d[2]>> ELSE d
\* datetime.isoformat()
IsoFormat(d) == <<"iso", d[2]>>
\* datetime.fromisoformat accepts both the 'T' and the ' ' separator
FromIsoFormat(s) == <<"datetime", s[2]>>

---------------------------------------------------------------------------
(* UserProfile                                                             *)

ProfileListFields ==
    {"dietary_restrictions", "cuisine_preferences", "cooking_equipment",
     "ingredient_preferences", "ingredient_dislikes", "health_goals"}
ProfileMapFields == {"cooking_time_preferences", "serving_size_preferences"}

\* the fields of the dataclass
UserProfileFields ==
    {"user_id", "skill_level", "last_updated"} \cup ProfileListFields \cup ProfileMapFields

\* __post_init__: a list or map argument left at None becomes empty
OrEmptyList(o) == IF IsNone(o) THEN <<>> ELSE The(o)
OrEmptyMap(o) == IF IsNone(o) THEN {} ELSE The(o)

\* UserProfile(user_id=..., **args): args gives skill_level and, as Optionals,
\* the list and map fields and last_updated; t is datetime.now()
NewUserProfile(user_id, args, t) ==
    [user_id |-> user_id,
     skill_level |-> args.skill_level,
     dietary_restrictions |-> OrEmptyList(args.dietary_restrictions),
     cuisine_preferences |-> OrEmptyList(args.cuisine_preferences),
     cooking_equipment |-> OrEmptyList(args.cooking_equipment),
     ingredient_preferences |-> OrEmptyList(args.ingredient_preferences),
     ingredient_dislikes |-> OrEmptyList(args.ingredient_dislikes),
     cooking_time_preferences |-> OrEmptyMap(args.cooking_time_preferences),
     serving_size_preferences |-> OrEmptyMap(args.serving_size_preferences),
     health_goals |-> OrEmptyList(args.health_goals),
     last_updated |-> IF IsNone(args.last_updated) THEN Datetime(t)
                      ELSE The(args.last_updated)]

\* UserProfile(user_id=user_id): every default
DefaultArgs ==
    [skill_level |-> "beginner",
     dietary_restrictions |-> None, cuisine_preferences |-> None,
     cooking_equipment |-> None, ingredient_preferences |-> None,
     ingredient_dislikes |-> None, cooking_time_preferences |-> None,
     serving_size_preferences |-> None, health_goals |-> None,
     last_updated |-> None]

\* Mutant: the written record loses the two map fields
ProfileToJsonDropMaps(profile) ==
    [profile EXCEPT !.last_updated = DefaultStr(@),
                    !.cooking_time_preferences = {},
                    !.serving_size_preferences = {}]

\* asdict(profile) written by json.dump(default=str)
ProfileToJson(profile) == [profile EXCEPT !.last_updated = DefaultStr(@)]

\* json.load, fromisoformat on last_updated, UserProfile(**data)
ProfileFromJson(data, t) ==
    NewUserProfile(data.user_id,
        [skill_level |-> data.skill_level,
         dietary_restrictions |-> Some(data.dietary_restrictions),
         cuisine_preferences |-> Some(data.cuisine_preferences),
         cooking_equipment |-> Some(data.cooking_equipment),
         ingredient_preferences |-> Some(data.ingredient_preferences),
         ingredient_dislikes |-> Some(data.ingredient_dislikes),
         cooking_time_preferences |-> Some(data.cooking_time_preferences),
         serving_size_preferences |-> Some(data.serving_size_preferences),
         health_goals |-> Some(data.health_goals),
         last_updated |-> Some(FromIsoFormat(data.last_updated))],
        t)

save_user_profile(st, profile) ==
    IF ~st.disk_ok
    THEN [st |-> st, ret |-> FALSE]
    ELSE LET p == [profile EXCEPT !.last_updated = Datetime(st.now)]
             written == WriteFile(st, FileKey("profiles", p.user_id), ProfileToJson(p))
         IN  [st |-> [written EXCEPT !.cache.profile = Put(@, p.user_id, p)],
              ret |-> TRUE]

\* Mutant: the default profile of an unknown user is returned but not saved
load_user_profile_no_persist(st, user_id) ==
    IF user_id \in DOMAIN st.cache.profile
    THEN [st |-> st, ret |-> Some(st.cache.profile[user_id])]
    ELSE IF ~FileExists(st, FileKey("profiles", user_id))
    THEN [st |-> st, ret |-> Some(NewUserProfile(user_id, DefaultArgs, st.now))]
    ELSE IF ~st.disk_ok
    THEN [st |-> st, ret |-> None]
    ELSE IF ~AcceptsKeywords(ReadFile(st, FileKey("profiles", user_id)),
                             {"user_id"}, UserProfileFields)
    THEN [st |-> st, ret |-> None]
    ELSE LET profile == ProfileFromJson(ReadFile(st, FileKey("profiles", user_id)), st.now)
         IN  [st |-> [st EXCEPT !.cache.profile = Put(@, user_id, profile)],
              ret |-> Some(profile)]

\* Mutant: a file of the profile is read whether the cache has a record or not
load_user_profile_file_first(st, user_id) ==
    IF ~FileExists(st, FileKey("profiles", user_id)) \/ ~st.disk_ok
    THEN IF user_id \in DOMAIN st.cache.profile
         THEN [st |-> st, ret |-> Some(st.cache.profile[user_id])]
         ELSE [st |-> st, ret |-> None]
    ELSE LET profile == ProfileFromJson(ReadFile(st, FileKey("profiles", user_id)), st.now)
         IN  [st |-> [st EXCEPT !.cache.profile = Put(@, user_id, profile)],
              ret |-> Some(profile)]

load_user_profile(st, user_id) ==
    IF user_id \in DOMAIN st.cache.profile
    THEN [st |-> st, ret |-> Some(st.cache.profile[user_id])]
    ELSE IF ~FileExists(st, FileKey("profiles", user_id))
    THEN \* create the default profile; it is returned whether or not the save works
         LET profile == NewUserProfile(user_id, DefaultArgs, st.now)
             saved == save_user_profile(st, profile)
         IN  [st |-> saved.st, ret |-> Some(profile)]
    ELSE IF ~st.disk_ok
    THEN [st |-> st, ret |-> None]
    \* UserProfile(**data) raises on the record of another class
    ELSE IF ~AcceptsKeywords(ReadFile(st, FileKey("profiles", user_id)),
                             {"user_id"}, UserProfileFields)
    THEN [st |-> st, ret |-> None]
    ELSE LET profile == ProfileFromJson(ReadFile(st, FileKey("profiles", user_id)), st.now)
         IN  [st |-> [st EXCEPT !.cache.profile = Put(@, user_id, profile)],
              ret |-> Some(profile)]

---------------------------------------------------------------------------
(* SessionContext                                                          *)

\* the fields of the dataclass
SessionContextFields ==
    {"session_id", "user_id", "current_ingredients", "current_cuisine",
     "current_dietary_restrictions", "current_time_constraint",
     "current_serving_size", "cooking_mode", "session_start_time"}

\* SessionContext(session_id=..., user_id=..., **args) with __post_init__
NewSessionContext(session_id, user_id, args, t) ==
    [session_id |-> session_id,
     user_id |-> user_id,
     current_ingredients |-> OrEmptyList(args.current_ingredients),
     current_cuisine |-> args.current_cuisine,
     current_dietary_restrictions |-> OrEmptyList(args.current_dietary_restrictions),
     current_time_constraint |-> args.current_time_constraint,
     current_serving_size |-> args.current_serving_size,
     cooking_mode |-> args.cooking_mode,
     session_start_time |-> IF IsNone(args.session_start_time) THEN Datetime(t)
                            ELSE The(args.session_start_time)]

\* asdict(context) written by json.dump(default=str)
SessionToJson(c) == [c EXCEPT !.session_start_time = DefaultStr(@)]

\* json.load, fromisoformat on session_start_time, SessionContext(**data)
SessionFromJson(data, t) ==
    NewSessionContext(data.session_id, data.user_id,
        [current_ingredients |-> Some(data.current_ingredients),
         current_cuisine |-> data.current_cuisine,
         current_dietary_restrictions |-> Some(data.current_dietary_restrictions),
         current_time_constraint |-> data.current_time_constraint,
         current_serving_size |-> data.current_serving_size,
         cooking_mode |-> data.cooking_mode,
         session_start_time |-> Some(FromIsoFormat(data.session_start_time))],
        t)

save_session_context(st, context) ==
    IF ~st.disk_ok
    THEN [st |-> st, ret |-> FALSE]
    ELSE LET written == WriteFile(st, FileKey("sessions", context.session_id),
                                  SessionToJson(context))
         IN  [st |-> [written EXCEPT
                        !.cache.session = Put(@, context.session_id, context)],
              ret |-> TRUE]

load_session_context(st, session_id) ==
    IF session_id \in DOMAIN st.cache.session
    THEN [st |-> st, ret |-> Some(st.cache.session[session_id])]
    ELSE IF ~FileExists(st, FileKey("sessions", session_id))
    THEN [st |-> st, ret |-> None]
    ELSE IF ~st.disk_ok
    THEN [st |-> st, ret |-> None]
    \* SessionContext(**data) raises on the record of another class
    ELSE IF ~AcceptsKeywords(ReadFile(st, FileKey("sessions", session_id)),
                             {"session_id", "user_id"}, SessionContextFields)
    THEN [st |-> st, ret |-> None]
    ELSE LET context == SessionFromJson(ReadFile(st, FileKey("sessions", session_id)),
                                        st.now)
         IN  [st |-> [st EXCEPT !.cache.session = Put(@, session_id, context)],
              ret |-> Some(context)]

---------------------------------------------------------------------------
(* ConversationContext                                                     *)

\* the fields of the dataclass
ConversationContextFields ==
    {"session_id", "user_id", "messages", "current_topic", "cooking_session_type",
     "active_recipe", "last_activity"}

\* ConversationContext(session_id=..., user_id=...) with __post_init__
NewConversationContext(session_id, user_id, t) ==
    [session_id |-> session_id, user_id |-> user_id, messages |-> <<>>,
     current_topic |-> None, cooking_session_type |-> None,
     active_recipe |-> None, last_activity |-> Datetime(t)]

\* asdict(context) written by json.dump(default=str)
ConversationToJson(c) == [c EXCEPT !.last_activity = DefaultStr(@)]

\* json.load, fromisoformat on last_activity, ConversationContext(**data)
ConversationFromJson(data) ==
    [data EXCEPT !.last_activity =
        IF data.last_activity # None THEN FromIsoFormat(@) ELSE Datetime(0)]

\* Mutant: the save reads the stored log again and appends the last entry of
\* the object to it
save_conversation_context_merge(st, context) ==
    LET key == FileKey("conversations", context.session_id)
        stored == IF FileExists(st, key) THEN ReadFile(st, key).messages ELSE <<>>
        c == [context EXCEPT
                !.last_activity = Datetime(st.now),
                !.messages = IF Len(@) = 0 THEN stored
                             ELSE Append(stored, @[Len(@)])]
        written == WriteFile(st, key, ConversationToJson(c))
    IN  [st |-> [written EXCEPT !.cache.conversation = Put(@, c.session_id, context)],
         ret |-> TRUE]

save_conversation_context(st, context) ==
    IF ~st.disk_ok
    THEN [st |-> st, ret |-> FALSE]
    ELSE LET c == [context EXCEPT !.last_activity = Datetime(st.now)]
             written == WriteFile(st, FileKey("conversations", c.session_id),
                                  ConversationToJson(c))
         IN  [st |-> [written EXCEPT !.cache.conversation = Put(@, c.session_id, c)],
              ret |-> TRUE]

load_conversation_context(st, session_id) ==
    IF session_id \in DOMAIN st.cache.conversation
    THEN [st |-> st, ret |-> Some(st.cache.conversation[session_id])]
    ELSE IF ~FileExists(st, FileKey("conversations", session_id))
    THEN [st |-> st, ret |-> None]
    ELSE IF ~st.disk_ok
    THEN [st |-> st, ret |-> None]
    \* ConversationContext(**data) raises on the record of another class
    ELSE IF ~AcceptsKeywords(ReadFile(st, FileKey("conversations", session_id)),
                             {"session_id", "user_id"}, ConversationContextFields)
    THEN [st |-> st, ret |-> None]
    ELSE LET context == ConversationFromJson(ReadFile(st,
                                FileKey("conversations", session_id)))
         IN  [st |-> [st EXCEPT !.cache.conversation = Put(@, session_id, context)],
              ret |-> Some(context)]

\* Mutant: the log is never truncated
AppendNoTrim(messages, entry) == Append(messages, entry)

\* Mutant: the truncation keeps the oldest 50 entries (messages[:50])
AppendKeepOldest(messages, entry) ==
    LET appended_list == Append(messages, entry)
    IN  IF Len(appended_list) > 50 THEN SubSeq(appended_list, 1, 50) ELSE appended_list

\* conversation.messages.append(entry); keep only the last 50
AppendAndTrim(messages, entry) ==
    LET appended_list == Append(messages, entry)
    IN  IF Len(appended_list) > 50 THEN LastN(appended_list, 50) ELSE appended_list

add_message_to_conversation(st, session_id, user_id, message, response, context_type) ==
    LET loaded == load_conversation_context(st, session_id)
        st1 == loaded.st
        conversation == IF IsNone(loaded.ret)
                        THEN NewConversationContext(session_id, user_id, st1.now)
                        ELSE The(loaded.ret)
        message_entry == [timestamp |-> IsoFormat(Datetime(st1.now)),
                          user_message |-> message,
                          ai_response |-> response,
                          context_type |-> context_type]
        mutated == [conversation EXCEPT !.messages = AppendAndTrim(@, message_entry)]
        \* a loaded conversation is the cached object: it is mutated in place
        st2 == IF session_id \in DOMAIN st1.cache.conversation
               THEN [st1 EXCEPT !.cache.conversation[session_id] = mutated]
               ELSE st1
    IN  save_conversation_context(st2, mutated)

---------------------------------------------------------------------------
(* Text.  A string is a sequence of pieces (TLA+ strings); an f-string is  *)
(* the concatenation of its literal pieces and its interpolated values.    *)
(* A Python value that is not a str is a piece of NonStr: str.join raises  *)
(* TypeError on it.                                                        *)

NonStr == {"#5"}

\* piece in text, for a text and one piece
Contains(text, piece) == \E i \in 1..Len(text) : text[i] = piece

\* needle in text, for sequences of pieces
IsSubSeq(needle, text) ==
    \E i \in 0..(Len(text) - Len(needle)) :
        \A j \in 1..Len(needle) : text[i + j] = needle[j]

RECURSIVE JoinPieces(_, _)
\* sep.join(items) for a list of strings given as single pieces
JoinPieces(items, sep) ==
    IF Len(items) = 0 THEN <<>>
    ELSE IF Len(items) = 1 THEN <<items[1]>>
    ELSE <<items[1], sep>> \o JoinPieces(Tail(items), sep)

RECURSIVE JoinTexts(_, _)
\* sep.join(parts) for a list of strings given as piece sequences
JoinTexts(parts, sep) ==
    IF Len(parts) = 0 THEN <<>>
    ELSE IF Len(parts) = 1 THEN parts[1]
    ELSE parts[1] \o <<sep>> \o JoinTexts(Tail(parts), sep)

\* str.join raises TypeError when an item is not a str
JoinRaises(items) == \E i \in 1..Len(items) : items[i] \in NonStr

\* the parts of a list of Optional texts that are present
RECURSIVE Present(_)
Present(opts) ==
    IF Len(opts) = 0 THEN <<>>
    ELSE (IF IsNone(opts[1]) THEN <<>> ELSE <<The(opts[1])>>) \o Present(Tail(opts))

\* f"{label}{', '.join(items)}" when items is non-empty
ListLine(label, items) ==
    IF Len(items) > 0 THEN Some(<<label>> \o JoinPieces(items, ", ")) ELSE None

\* f"{label}{value}" when the Optional string value is set and non-empty
ScalarLine(label, value) ==
    IF ~IsNone(value) /\ The(value) # "" THEN Some(<<label, The(value)>>) ELSE None

\* f"{label}{n}" when the Optional int is set and non-zero
IntLine(label, value) ==
    IF ~IsNone(value) /\ The(value) # 0 THEN Some(<<label, ToString(The(value))>>) ELSE None

---------------------------------------------------------------------------
(* ContextManager: rendering of the context sections                       *)

\* raises TypeError when a list holds a value that is not a str
ProfileContextRaises(profile) ==
    \E f \in ProfileListFields : JoinRaises(profile[f])

\* Mutant: the health goals are left out of the profile section
_build_profile_context_no_goals(profile) ==
    JoinTexts(Present(<<
        ScalarLine("Skill Level: ", Some(profile.skill_level)),
        ListLine("Dietary Restrictions: ", profile.dietary_restrictions),
        ListLine("Preferred Cuisines: ", profile.cuisine_preferences),
        ListLine("Available Equipment: ", profile.cooking_equipment),
        ListLine("Preferred Ingredients: ", profile.ingredient_preferences),
        ListLine("Ingredients to Avoid: ", profile.ingredient_dislikes)>>), "\n")

_build_profile_context(profile) ==
    JoinTexts(Present(<<
        ScalarLine("Skill Level: ", Some(profile.skill_level)),
        ListLine("Dietary Restrictions: ", profile.dietary_restrictions),
        ListLine("Preferred Cuisines: ", profile.cuisine_preferences),
        ListLine("Available Equipment: ", profile.cooking_equipment),
        ListLine("Preferred Ingredients: ", profile.ingredient_preferences),
        ListLine("Ingredients to Avoid: ", profile.ingredient_dislikes),
        ListLine("Health Goals: ", profile.health_goals)>>), "\n")

SessionContextRaises(session) ==
    \/ JoinRaises(session.current_ingredients)
    \/ JoinRaises(session.current_dietary_restrictions)

_build_session_context(session) ==
    JoinTexts(Present(<<
        ListLine("Current Ingredients: ", session.current_ingredients),
        ScalarLine("Current Cuisine: ", session.current_cuisine),
        ListLine("Current Dietary Restrictions: ", session.current_dietary_restrictions),
        ScalarLine("Time Constraint: ", session.current_time_constraint),
        IntLine("Serving Size: ", session.current_serving_size),
        ScalarLine("Cooking Mode: ", session.cooking_mode)>>), "\n")

\* one exchange of the history: four lines
ExchangeLines(i, msg) ==
    << <<"Exchange ", ToString(i), ":">>,
       <<"User: ", msg.user_message>>,
       <<"AI: ", msg.ai_response>>,
       <<>> >>

RECURSIVE ExchangesFrom(_, _)
ExchangesFrom(i, messages) ==
    IF Len(messages) = 0 THEN <<>>
    ELSE ExchangeLines(i, messages[1]) \o ExchangesFrom(i + 1, Tail(messages))

_build_conversation_context(conversation) ==
    IF Len(conversation.messages) = 0 THEN <<>>
    ELSE JoinTexts(
            << <<"CONVERSATION HISTORY:">>, <<"=====">> >>
            \o ExchangesFrom(1, LastN(conversation.messages, 10))
            \o << <<"=====">>,
                  <<"IMPORTANT: Use the conversation history above">> >>,
            "\n")

\* the prompt of the success path, given what the three loads returned
ContextualPrompt(user_profile, conversation, session, base_prompt, query) ==
    LET profile_context ==
            IF IsNone(user_profile) THEN <<>>
            ELSE _build_profile_context(The(user_profile))
        session_context ==
            IF IsNone(session) THEN <<>> ELSE _build_session_context(The(session))
        recent_context ==
            IF IsNone(conversation) \/ Len(The(conversation).messages) = 0 THEN <<>>
            ELSE _build_conversation_context(The(conversation))
        context_sections == Present(<<
            IF Len(profile_context) > 0
                THEN Some(<<"USER PROFILE:", "\n">> \o profile_context) ELSE None,
            IF Len(session_context) > 0
                THEN Some(<<"CURRENT SESSION:", "\n">> \o session_context) ELSE None,
            IF Len(recent_context) > 0
                THEN Some(<<"RECENT CONVERSATION:", "\n">> \o recent_context) ELSE None>>)
        full_context == JoinTexts(context_sections, "\n\n")
    IN  IF Len(full_context) > 0
        THEN base_prompt \o <<"\n\n", "CONTEXT INFORMATION:", "\n">> \o full_context
             \o <<"\n\n", "CURRENT QUERY: ">> \o query
             \o <<"\n\n", "Please use the context information above">>
        ELSE base_prompt \o <<"\n\n", "CURRENT QUERY: ">> \o query

build_contextual_prompt(st, user_id, session_id, base_prompt, query) ==
    LET l1 == load_user_profile(st, user_id)
        l2 == load_conversation_context(l1.st, session_id)
        l3 == load_session_context(l2.st, session_id)
        raises == \/ (~IsNone(l1.ret) /\ ProfileContextRaises(The(l1.ret)))
                  \/ (~IsNone(l3.ret) /\ SessionContextRaises(The(l3.ret)))
    IN  [st |-> l3.st,
         ret |-> IF raises
                 THEN base_prompt \o <<"\n\n", "CURRENT QUERY: ">> \o query
                 ELSE ContextualPrompt(l1.ret, l2.ret, l3.ret, base_prompt, query)]

---------------------------------------------------------------------------
(* PromptEngineer: the classifier                                          *)

\* the keyword lists of determine_prompt_type, as character sequences
recipe_keywords ==
    <<<<"r", "e", "c", "i", "p", "e">>,
      <<"c", "o", "o", "k">>,
      <<"m", "a", "k", "e">>,
      <<"p", "r", "e", "p", "a", "r", "e">>,
      <<"i", "n", "g", "r", "e", "d", "i", "e", "n", "t", "s">>,
      <<"d", "i", "s", "h">>,
      <<"m", "e", "a", "l">>,
      <<"b", "r", "e", "a", "k", "f", "a", "s", "t">>,
      <<"l", "u", "n", "c", "h">>,
      <<"d", "i", "n", "n", "e", "r">>,
      <<"s", "n", "a", "c", "k">>,
      <<"a", "p", "p", "e", "t", "i", "z", "e", "r">>,
      <<"d", "e", "s", "s", "e", "r", "t">>>>

\* cooking assistance keywords
cooking_keywords ==
    <<<<"h", "o", "w", " ", "t", "o">>,
      <<"t", "e", "c", "h", "n", "i", "q", "u", "e">>,
      <<"m", "e", "t", "h", "o", "d">>,
      <<"t", "r", "o", "u", "b", "l", "e", "s", "h", "o", "o", "t">>,
      <<"p", "r", "o", "b", "l", "e", "m">>,
      <<"h", "e", "l", "p">>,
      <<"w", "h", "y">>,
      <<"w", "h", "a", "t", " ", "i", "f">>,
      <<"f", "i", "x">>,
      <<"c", "o", "r", "r", "e", "c", "t">>,
      <<"a", "d", "j", "u", "s", "t">>>>

\* substitution keywords
substitution_keywords ==
    <<<<"s", "u", "b", "s", "t", "i", "t", "u", "t", "e">>,
      <<"r", "e", "p", "l", "a", "c", "e">>,
      <<"a", "l", "t", "e", "r", "n", "a", "t", "i", "v", "e">>,
      <<"i", "n", "s", "t", "e", "a", "d", " ", "o", "f">>,
      <<"d", "o", "n", "'", "t", " ", "h", "a", "v", "e">>,
      <<"a", "l", "l", "e", "r", "g", "i", "c">>,
      <<"i", "n", "t", "o", "l", "e", "r", "a", "n", "t">>,
      <<"c", "a", "n", "'", "t", " ", "e", "a", "t">>>>

\* technique explanation keywords
technique_keywords ==
    <<<<"e", "x", "p", "l", "a", "i", "n">>,
      <<"w", "h", "a", "t", " ", "i", "s">>,
      <<"d", "e", "f", "i", "n", "e">>,
      <<"t", "e", "c", "h", "n", "i", "q", "u", "e">>,
      <<"m", "e", "t", "h", "o", "d">>,
      <<"s", "c", "i", "e", "n", "c", "e">>,
      <<"w", "h", "y", " ", "d", "o", "e", "s">>,
      <<"h", "o", "w", " ", "d", "o", "e", "s">>,
      <<"p", "r", "o", "c", "e", "s", "s">>>>

\* The pieces queries are made of, and the characters of each
Fragments ==
    {" ", "make", "oat", "meal", "fix", "substitute", "instead", "of", "explain", "how", "to", "WHAT IS", "Cook", "eggs"}

FragChars(f) ==
    CASE f = " " -> <<" ">>
      [] f = "make" -> <<"m", "a", "k", "e">>
      [] f = "oat" -> <<"o", "a", "t">>
      [] f = "meal" -> <<"m", "e", "a", "l">>
      [] f = "fix" -> <<"f", "i", "x">>
      [] f = "substitute" -> <<"s", "u", "b", "s", "t", "i", "t", "u", "t", "e">>
      [] f = "instead" -> <<"i", "n", "s", "t", "e", "a", "d">>
      [] f = "of" -> <<"o", "f">>
      [] f = "explain" -> <<"e", "x", "p", "l", "a", "i", "n">>
      [] f = "how" -> <<"h", "o", "w">>
      [] f = "to" -> <<"t", "o">>
      [] f = "WHAT IS" -> <<"W", "H", "A", "T", " ", "I", "S">>
      [] f = "Cook" -> <<"C", "o", "o", "k">>
      [] f = "eggs" -> <<"e", "g", "g", "s">>
      [] f = "?" -> <<"?">>
      \* the query of generate_contextual_recipes
      [] f = "Generate personalized recipes based on my preferences and available ingredients" ->
          <<
             "G", "e", "n", "e", "r", "a", "t", "e", " ", "p", "e", "r",
             "s", "o", "n", "a", "l", "i", "z", "e", "d", " ", "r", "e",
             "c", "i", "p", "e", "s", " ", "b", "a", "s", "e", "d", " ",
             "o", "n", " ", "m", "y", " ", "p", "r", "e", "f", "e", "r",
             "e", "n", "c", "e", "s", " ", "a", "n", "d", " ", "a", "v",
             "a", "i", "l", "a", "b", "l", "e", " ", "i", "n", "g", "r",
             "e", "d", "i", "e", "n", "t", "s"
          >>

\* str.lower() on one character
LowerChar(c) ==
    CASE c = "A" -> "a"
      [] c = "C" -> "c"
      [] c = "G" -> "g"
      [] c = "H" -> "h"
      [] c = "I" -> "i"
      [] c = "S" -> "s"
      [] c = "T" -> "t"
      [] c = "W" -> "w"
      [] OTHER -> c

RECURSIVE Chars(_)
\* the characters of a query given as fragments
Chars(query) ==
    IF Len(query) = 0 THEN <<>> ELSE FragChars(query[1]) \o Chars(Tail(query))

\* str.lower()
Lower(text) == [i \in 1..Len(text) |-> LowerChar(text[i])]

\* any(keyword in query_lower for keyword in keywords)
AnyKeywordIn(keywords, query_lower) ==
    \E k \in 1..Len(keywords) : IsSubSeq(keywords[k], query_lower)

\* Mutant: the substitution keywords are tested before the recipe keywords
determine_prompt_type_subst_first(query) ==
    LET query_lower == Lower(Chars(query))
    IN  IF AnyKeywordIn(substitution_keywords, query_lower) THEN "ingredient_substitution"
        ELSE IF AnyKeywordIn(recipe_keywords, query_lower) THEN "recipe_generation"
        ELSE IF AnyKeywordIn(cooking_keywords, query_lower) THEN "cooking_assistance"
        ELSE IF AnyKeywordIn(technique_keywords, query_lower) THEN "technique_explanation"
        ELSE "general_query"

determine_prompt_type(query) ==
    LET query_lower == Lower(Chars(query))
    IN  IF AnyKeywordIn(recipe_keywords, query_lower) THEN "recipe_generation"
        ELSE IF AnyKeywordIn(cooking_keywords, query_lower) THEN "cooking_assistance"
        ELSE IF AnyKeywordIn(substitution_keywords, query_lower) THEN "ingredient_substitution"
        ELSE IF AnyKeywordIn(technique_keywords, query_lower) THEN "technique_explanation"
        ELSE "general_query"

---------------------------------------------------------------------------
(* PromptEngineer: prompt building                                         *)

StoreQueries ==
    { <<"make", " ", "eggs">>, <<"substitute">>, <<"eggs">>,
      <<"Generate personalized recipes based on my preferences and available ingredients">> }

\* determine_prompt_type on the queries the store's specification uses
StoreQueryType == [q \in StoreQueries |-> determine_prompt_type(q)]

PromptTypes ==
    {"recipe_generation", "cooking_assistance", "ingredient_substitution",
     "technique_explanation", "general_query"}

\* the opening sentence of each template stands for the whole template
prompt_templates ==
    [recipe_generation |->
        <<"You are CulinaMind, an expert culinary AI assistant specializing in personalized recipe generation.">>,
     cooking_assistance |->
        <<"You are CulinaMind, a knowledgeable cooking assistant">>,
     ingredient_substitution |->
        <<"You are CulinaMind, an expert in ingredient substitutions and recipe modifications.">>,
     technique_explanation |->
        <<"You are CulinaMind, a culinary educator specializing in cooking techniques and food science.">>,
     general_query |->
        <<"You are CulinaMind, a comprehensive culinary AI assistant">>]

\* context.get(key), truthy
CtxHas(context, key) == key \in DOMAIN context /\ Len(context[key]) > 0

\* the (key, label, is-a-list) triples each prompt type renders, in order
TypeSpecificKeys(prompt_type) ==
    CASE prompt_type = "recipe_generation" ->
            << <<"ingredients", "Available Ingredients: ", TRUE>>,
               <<"cuisine", "Preferred Cuisine: ", FALSE>>,
               <<"dietary_restrictions", "Dietary Restrictions: ", TRUE>>,
               <<"time_limit", "Time Constraint: ", FALSE>>,
               <<"serving_size", "Serving Size: ", FALSE>>,
               <<"skill_level", "User Skill Level: ", FALSE>> >>
      [] prompt_type = "cooking_assistance" ->
            << <<"current_recipe", "Current Recipe: ", FALSE>>,
               <<"cooking_stage", "Cooking Stage: ", FALSE>>,
               <<"equipment_available", "Available Equipment: ", TRUE>>,
               <<"problem_description", "Problem: ", FALSE>> >>
      [] prompt_type = "ingredient_substitution" ->
            << <<"original_ingredient", "Original Ingredient: ", FALSE>>,
               <<"substitution_reason", "Reason for Substitution: ", FALSE>>,
               <<"recipe_context", "Recipe Context: ", FALSE>> >>
      [] prompt_type = "technique_explanation" ->
            << <<"technique_name", "Technique: ", FALSE>>,
               <<"skill_level", "User Skill Level: ", FALSE>>,
               <<"specific_question", "Specific Question: ", FALSE>> >>
      [] OTHER -> <<>>

\* ', '.join(context[key]) raises TypeError on a value that is not a str
TypeSpecificRaises(prompt_type, context) ==
    LET keys == TypeSpecificKeys(prompt_type)
    IN  \E i \in 1..Len(keys) :
            /\ keys[i][3]
            /\ CtxHas(context, keys[i][1])
            /\ JoinRaises(context[keys[i][1]])

\* a scalar context value is a one-piece text, a list value a list of pieces
Enhancement(context, key) ==
    IF ~CtxHas(context, key[1]) THEN None
    ELSE IF key[3] THEN Some(<<key[2]>> \o JoinPieces(context[key[1]], ", "))
    ELSE Some(<<key[2]>> \o context[key[1]])

_add_type_specific_context(prompt, prompt_type, context) ==
    LET keys == TypeSpecificKeys(prompt_type)
        enhancements == Present([i \in 1..Len(keys) |-> Enhancement(context, keys[i])])
    IN  IF Len(enhancements) > 0
        THEN prompt \o <<"\n\n", "ADDITIONAL CONTEXT:", "\n">>
             \o JoinTexts(enhancements, "\n\n")
        ELSE prompt

\* Mutant: the fallback of the except branch leaves the query out
FallbackPromptNoQuery(query) == prompt_templates["general_query"]

\* the except branch of build_enhanced_prompt
FallbackPrompt(query) ==
    prompt_templates["general_query"] \o <<"\n\n", "Query: ">> \o query

build_enhanced_prompt(st, user_id, session_id, query, context) ==
    LET prompt_type == StoreQueryType[query]
        base_template == prompt_templates[prompt_type]
        built == build_contextual_prompt(st, user_id, session_id, base_template, query)
    IN  [st |-> built.st,
         ret |-> IF TypeSpecificRaises(prompt_type, context)
                 THEN FallbackPrompt(query)
                 ELSE _add_type_specific_context(built.ret, prompt_type, context)]

---------------------------------------------------------------------------
(* The store as a state machine                                            *)

Store ==
    [files |-> files, mtime |-> mtime, cache |-> context_cache,
     disk_ok |-> disk_ok, now |-> now]

SetStore(st) ==
    /\ files' = st.files
    /\ mtime' = st.mtime
    /\ context_cache' = st.cache
    /\ disk_ok' = st.disk_ok
    /\ now' = st.now

\* ContextManager.__init__ on an empty storage root
Init ==
    /\ files = [profiles |-> EmptyMap, conversations |-> EmptyMap, sessions |-> EmptyMap]
    /\ mtime = [profiles |-> EmptyMap, conversations |-> EmptyMap, sessions |-> EmptyMap]
    /\ context_cache = [profile |-> EmptyMap, conversation |-> EmptyMap, session |-> EmptyMap]
    /\ disk_ok = TRUE
    /\ now = 0
    /\ appended = [s \in Sessions |-> 0]
    /\ saved_profile = EmptyMap
    /\ peer_cache = [profile |-> EmptyMap, conversation |-> EmptyMap, session |-> EmptyMap]
    /\ requests = EmptyMap
    /\ otp_store = EmptyMap
    /\ db = EmptyDb
    /\ anthropic_mcp_validator = AnthropicMCPValidator
    /\ op = [name |-> "init"]
    /\ ret = None

\* The n-th call on a session appends the message "n" answered by "r" \o "n"
AddMessageUpTo(limit, sessions, users) ==
    \E s \in sessions, u \in users :
        /\ appended[s] < limit
        /\ LET n == appended[s] + 1
               r == add_message_to_conversation(Store, s, u, ToString(n),
                                                "r" \o ToString(n), "general")
           IN  /\ SetStore(r.st)
               /\ ret' = r.ret
               /\ appended' = [appended EXCEPT ![s] = n]
               /\ op' = [name |-> "add_message_to_conversation", session_id |-> s,
                         user_id |-> u]
               /\ UNCHANGED <<saved_profile, peer_cache, requests, otp_store, db, anthropic_mcp_validator>>

\* A new process: ContextManager() over the same storage root, empty cache
Restart ==
    /\ context_cache' = [profile |-> EmptyMap, conversation |-> EmptyMap, session |-> EmptyMap]
    /\ op' = [name |-> "restart"]
    /\ ret' = None
    /\ UNCHANGED <<files, mtime, disk_ok, now, appended, saved_profile, peer_cache, requests, otp_store, db, anthropic_mcp_validator>>

AddMessage == AddMessageUpTo(MaxAppends, Sessions, Users)

---------------------------------------------------------------------------
(* Inputs of the store's operations                                        *)

\* the profile of test_integration
ProfileA ==
    [DefaultArgs EXCEPT
        !.skill_level = "intermediate",
        !.dietary_restrictions = Some(<<"vegetarian">>),
        !.cuisine_preferences = Some(<<"italian">>),
        !.cooking_equipment = Some(<<"oven", "stovetop">>),
        !.ingredient_preferences = Some(<<"tomatoes", "basil", "garlic">>)]

\* the remaining fields, as test_preference_collection fills them
ProfileB ==
    [DefaultArgs EXCEPT
        !.skill_level = "advanced",
        !.ingredient_dislikes = Some(<<"mushrooms">>),
        !.health_goals = Some(<<"weight_loss">>),
        !.cooking_time_preferences = Some({<<"weekday", "30min">>, <<"weekend", "60min">>}),
        !.serving_size_preferences = Some({<<"weekend", 4>>})]

\* no skill level and nothing else
ProfileBlank == [DefaultArgs EXCEPT !.skill_level = ""]

\* a list holding a value that is not a str
ProfileIllTyped == [DefaultArgs EXCEPT !.dietary_restrictions = Some(<<"#5">>)]

ProfileInputs == {ProfileA, ProfileB, ProfileBlank, ProfileIllTyped}

\* SessionContext(session_id, user_id): what start_conversation saves
SessionEmpty ==
    [current_ingredients |-> None, current_cuisine |-> None,
     current_dietary_restrictions |-> None, current_time_constraint |-> None,
     current_serving_size |-> None, cooking_mode |-> None,
     session_start_time |-> None]

\* the session of test_integration
SessionA ==
    [SessionEmpty EXCEPT
        !.current_ingredients = Some(<<"tomatoes", "basil">>),
        !.current_cuisine = Some("italian"),
        !.current_dietary_restrictions = Some(<<"vegetarian">>),
        !.current_time_constraint = Some("30 minutes")]

SessionB ==
    [SessionEmpty EXCEPT
        !.current_serving_size = Some(4),
        !.cooking_mode = Some("strict_ingredients")]

SessionInputs == {SessionEmpty, SessionA, SessionB}

\* the (query, context) pairs build_enhanced_prompt is called with; the last
\* context holds a list with a value that is not a str
StoreRequests ==
    { << <<"make", " ", "eggs">>, [cuisine |-> <<"italian">>] >>,
      << <<"make", " ", "eggs">>, [ingredients |-> <<"#5">>] >>,
      << <<"substitute">>, [original_ingredient |-> <<"eggs">>] >>,
      << <<"eggs">>, EmptyMap >> }

---------------------------------------------------------------------------
(* The operations of the store and of the prompt engineer as actions       *)

SaveProfile ==
    \E u \in StoreUsers, args \in ProfileInputs :
        LET profile == NewUserProfile(u, args, now)
            r == save_user_profile(Store, profile)
        IN  /\ SetStore(r.st)
            /\ ret' = r.ret
            /\ op' = [name |-> "save_user_profile", user_id |-> u, profile |-> profile]
            /\ saved_profile' = IF r.ret THEN Put(saved_profile, u, r.st.cache.profile[u])
                                ELSE saved_profile
            /\ UNCHANGED <<appended, peer_cache, requests, otp_store, db, anthropic_mcp_validator>>

LoadProfile ==
    \E u \in StoreUsers :
        LET r == load_user_profile(Store, u)
        IN  /\ SetStore(r.st)
            /\ ret' = r.ret
            /\ op' = [name |-> "load_user_profile", user_id |-> u,
                      known |-> u \in DOMAIN files.profiles
                                \/ u \in DOMAIN context_cache.profile,
                      cached |-> u \in DOMAIN context_cache.profile]
            /\ UNCHANGED <<appended, saved_profile, peer_cache, requests, otp_store, db, anthropic_mcp_validator>>

SaveSession ==
    \E s \in StoreSessions, u \in StoreUsers, args \in SessionInputs :
        LET context == NewSessionContext(s, u, args, now)
            r == save_session_context(Store, context)
        IN  /\ SetStore(r.st)
            /\ ret' = r.ret
            /\ op' = [name |-> "save_session_context", session_id |-> s,
                      context |-> context]
            /\ UNCHANGED <<appended, saved_profile, peer_cache, requests, otp_store, db, anthropic_mcp_validator>>

LoadSession ==
    \E s \in StoreSessions :
        LET r == load_session_context(Store, s)
        IN  /\ SetStore(r.st)
            /\ ret' = r.ret
            /\ op' = [name |-> "load_session_context", session_id |-> s,
                      known |-> s \in DOMAIN files.sessions
                                \/ s \in DOMAIN context_cache.session]
            /\ UNCHANGED <<appended, saved_profile, peer_cache, requests, otp_store, db, anthropic_mcp_validator>>

LoadConversation ==
    \E s \in StoreSessions :
        LET r == load_conversation_context(Store, s)
        IN  /\ SetStore(r.st)
            /\ ret' = r.ret
            /\ op' = [name |-> "load_conversation_context", session_id |-> s,
                      known |-> s \in DOMAIN files.conversations
                                \/ s \in DOMAIN context_cache.conversation]
            /\ UNCHANGED <<appended, saved_profile, peer_cache, requests, otp_store, db, anthropic_mcp_validator>>

AddMessageStore == AddMessageUpTo(MaxStoreAppends, StoreSessions, StoreUsers)

BuildEnhancedPrompt ==
    \E u \in StoreUsers, s \in StoreSessions, rq \in StoreRequests :
        LET q == rq[1]
            c == rq[2]
            r == build_enhanced_prompt(Store, u, s, q, c)
        IN  /\ SetStore(r.st)
            /\ ret' = r.ret
            /\ op' = [name |-> "build_enhanced_prompt", user_id |-> u,
                      session_id |-> s, query |-> q, context |-> c,
                      \* the saved records the call finds, if any
                      profile |-> IF u \in DOMAIN files.profiles
                                  THEN load_user_profile(Store, u).ret ELSE None,
                      session |-> load_session_context(Store, s).ret]
            /\ UNCHANGED <<appended, saved_profile, peer_cache, requests, otp_store, db, anthropic_mcp_validator>>

\* the clock advances
Tick ==
    /\ now < MaxTime
    /\ now' = now + 1
    /\ op' = [name |-> "tick"]
    /\ ret' = None
    /\ UNCHANGED <<files, mtime, context_cache, disk_ok, appended, saved_profile, peer_cache, requests, otp_store, db, anthropic_mcp_validator>>

Next ==
    \/ SaveProfile
    \/ LoadProfile
    \/ SaveSession
    \/ LoadSession
    \/ LoadConversation
    \/ AddMessageStore
    \/ BuildEnhancedPrompt
    \/ Restart
    \/ Tick

Spec == Init /\ [][Next]_vars

\* open() on the storage root starts or stops failing
ToggleDisk ==
    /\ disk_ok' = ~disk_ok
    /\ op' = [name |-> "toggle_disk"]
    /\ ret' = None
    /\ UNCHANGED <<files, mtime, context_cache, now, appended, saved_profile, peer_cache, requests, otp_store, db, anthropic_mcp_validator>>

NextFault ==
    \/ SaveProfile
    \/ LoadProfile
    \/ SaveSession
    \/ LoadSession
    \/ LoadConversation
    \/ AddMessageStore
    \/ BuildEnhancedPrompt
    \/ Restart
    \/ ToggleDisk

\* the store over a storage root whose files may fail to open
SpecFault == Init /\ [][NextFault]_vars

NextConv == AddMessage \/ Restart

SpecConv == Init /\ [][NextConv]_vars

---------------------------------------------------------------------------
(* Claims about the conversation log (checked under SpecConv)              *)

StoredLogs ==
    {files.conversations[s].messages : s \in DOMAIN files.conversations}
    \cup {context_cache.conversation[s].messages : s \in DOMAIN context_cache.conversation}

\* C1: whatever add_message_to_conversation calls were made, on whatever
\* sessions, every stored conversation log, in the cache and in the file,
\* holds at most 50 entries.
C1_LogAtMost50 == \A log \in StoredLogs : Len(log) <= 50

\* C1 witness: a session took more than 50 appends and its file and its cached
\* log hold exactly 50 entries.
C1_Witness ==
    \E s \in Sessions :
        /\ appended[s] > 50
        /\ s \in DOMAIN files.conversations
        /\ Len(files.conversations[s].messages) = 50
        /\ s \in DOMAIN context_cache.conversation
        /\ Len(context_cache.conversation[s].messages) = 50

\* The user messages of the last min(n, 50) of n appends, oldest first
ExpectedLog(n) ==
    LET kept == IF n < 50 THEN n ELSE 50
    IN  [i \in 1..kept |-> ToString(n - kept + i)]

UserMessages(log) == [i \in 1..Len(log) |-> log[i].user_message]
AiResponses(log) == [i \in 1..Len(log) |-> log[i].ai_response]

\* C2: after n appends to a session the stored log (file, and cache when
\* present) is exactly the last min(n, 50) appended entries in append order.
C2_LogIsLastFifty ==
    \A s \in Sessions :
        appended[s] > 0 =>
            /\ s \in DOMAIN files.conversations
            /\ UserMessages(files.conversations[s].messages) = ExpectedLog(appended[s])
            /\ AiResponses(files.conversations[s].messages)
                   = [i \in 1..Len(ExpectedLog(appended[s])) |->
                         "r" \o ExpectedLog(appended[s])[i]]
            /\ s \in DOMAIN context_cache.conversation =>
                   UserMessages(context_cache.conversation[s].messages)
                       = ExpectedLog(appended[s])

\* C2 witness: after the 51st append the log runs from the 2nd to the 51st entry.
C2_Witness ==
    \E s \in Sessions :
        /\ appended[s] = 51
        /\ s \in DOMAIN files.conversations
        /\ Len(files.conversations[s].messages) = 50
        /\ files.conversations[s].messages[1].user_message = "2"
        /\ files.conversations[s].messages[50].user_message = "51"

---------------------------------------------------------------------------
(* Profiles, sessions and conversations in the store (Spec)                *)

ProfileContentFields == {"user_id", "skill_level"} \cup ProfileListFields \cup ProfileMapFields

\* the default profile of a user, created at time t
DefaultProfile(user_id, t) == NewUserProfile(user_id, DefaultArgs, t)

\* C3: a load_user_profile that follows a save_user_profile of the same user,
\* served from the cache or read back from the file by a store whose cache is
\* empty, returns the saved skill level and the saved list and map fields,
\* and a timestamp of the instant of the save.
C3_ProfileRoundTrip ==
    (op.name = "load_user_profile" /\ op.user_id \in DOMAIN saved_profile)
        => /\ ~IsNone(ret)
           /\ \A f \in ProfileContentFields :
                The(ret)[f] = saved_profile[op.user_id][f]
           /\ The(ret).last_updated = saved_profile[op.user_id].last_updated

\* a profile with map fields is read back from its file, at a later time,
\* by a store that had it not in its cache
C3_Witness ==
    /\ op.name = "load_user_profile"
    /\ op.user_id \in DOMAIN saved_profile
    /\ ~op.cached
    /\ ~IsNone(ret)
    /\ The(ret).serving_size_preferences = {<<"weekend", 4>>}
    /\ The(ret).health_goals = <<"weight_loss">>
    /\ The(ret).last_updated = Datetime(0)
    /\ now = 1

\* C4: load_user_profile of a never-saved user returns the default profile
\* and leaves it on file; load_session_context and load_conversation_context
\* of a never-saved session return nothing and create no record.
C4_LoadOfUnknown ==
    /\ (op.name = "load_user_profile" /\ ~op.known)
        => /\ ret = Some(DefaultProfile(op.user_id, now))
           /\ The(ret).skill_level = "beginner"
           /\ \A f \in ProfileListFields : The(ret)[f] = <<>>
           /\ \A f \in ProfileMapFields : The(ret)[f] = {}
           /\ op.user_id \in DOMAIN files.profiles
           /\ files.profiles[op.user_id] = ProfileToJson(The(ret))
    /\ (op.name = "load_session_context" /\ ~op.known)
        => /\ ret = None
           /\ op.session_id \notin DOMAIN files.sessions
           /\ op.session_id \notin DOMAIN context_cache.session
    /\ (op.name = "load_conversation_context" /\ ~op.known)
        => /\ ret = None
           /\ op.session_id \notin DOMAIN files.conversations
           /\ op.session_id \notin DOMAIN context_cache.conversation

\* a never-saved session is loaded after the load of a never-saved user has
\* left the default profile on file
C4_Witness ==
    /\ op.name = "load_session_context"
    /\ ~op.known
    /\ ret = None
    /\ "s1" \notin DOMAIN files.sessions
    /\ "u1" \notin DOMAIN saved_profile
    /\ "u1" \in DOMAIN files.profiles
    /\ files.profiles["u1"].skill_level = "beginner"

---------------------------------------------------------------------------
(* The prompt of build_enhanced_prompt (Spec, SpecFault)                   *)

\* C6: build_enhanced_prompt returns a non-empty string that contains the
\* query, whatever records exist and whether or not a load or the assembly
\* of the context fails.
C6_PromptHoldsQuery ==
    op.name = "build_enhanced_prompt"
        => /\ Len(ret) > 0
           /\ IsSubSeq(op.query, ret)

\* the assembly failed on a context value and the profile could not be read:
\* the prompt is the minimal template followed by the query
C6_Witness ==
    /\ op.name = "build_enhanced_prompt"
    /\ ~disk_ok
    /\ op.user_id \in DOMAIN files.profiles
    /\ op.user_id \notin DOMAIN context_cache.profile
    /\ ret = FallbackPrompt(op.query)

SeqElems(s) == {s[i] : i \in 1..Len(s)}

\* the values of the profile fields the profile section renders
RenderedProfileValues(p) ==
    (IF p.skill_level # "" THEN {p.skill_level} ELSE {})
    \cup UNION {SeqElems(p[f]) : f \in ProfileListFields}

\* the keys of the entries of the two map fields
ProfileMapKeys(p) == UNION {{e[1] : e \in p[f]} : f \in ProfileMapFields}

OptValue(o) == IF ~IsNone(o) /\ The(o) # "" THEN {The(o)} ELSE {}

\* the values of the non-empty fields of a session
SessionValues(c) ==
    SeqElems(c.current_ingredients) \cup SeqElems(c.current_dietary_restrictions)
    \cup OptValue(c.current_cuisine) \cup OptValue(c.current_time_constraint)
    \cup OptValue(c.cooking_mode)
    \cup (IF ~IsNone(c.current_serving_size) /\ The(c.current_serving_size) # 0
          THEN {ToString(The(c.current_serving_size))} ELSE {})

\* build_enhanced_prompt was called with lists of strings only, for a user
\* with a saved profile and a session saved with a non-empty field
C7_Case ==
    /\ op.name = "build_enhanced_prompt"
    /\ ~IsNone(op.profile)
    /\ ~IsNone(op.session)
    /\ SessionValues(The(op.session)) # {}
    /\ ~ProfileContextRaises(The(op.profile))
    /\ ~SessionContextRaises(The(op.session))
    /\ ~TypeSpecificRaises(StoreQueryType[op.query], op.context)

\* C7 as stated, for a profile with a skill level: both sections are there
\* and carry every non-empty field of the profile, the two map fields
\* included, and of the session.
C7_AsStated ==
    (C7_Case /\ The(op.profile).skill_level # "")
        => /\ Contains(ret, "USER PROFILE:")
           /\ Contains(ret, "CURRENT SESSION:")
           /\ \A v \in RenderedProfileValues(The(op.profile))
                        \cup ProfileMapKeys(The(op.profile))
                        \cup SessionValues(The(op.session)) : Contains(ret, v)

\* C7, amended: the CURRENT SESSION section is there and carries every
\* non-empty session field; the USER PROFILE section is there when the skill
\* level or a list field of the profile is non-empty, and carries the skill
\* level and every non-empty list field; the entries of the map fields
\* cooking_time_preferences and serving_size_preferences are not in the prompt.
C7_SectionsCarryRenderedFields ==
    C7_Case
        => /\ Contains(ret, "CURRENT SESSION:")
           /\ (RenderedProfileValues(The(op.profile)) # {}
                  <=> Contains(ret, "USER PROFILE:"))
           /\ \A v \in RenderedProfileValues(The(op.profile))
                        \cup SessionValues(The(op.session)) : Contains(ret, v)
           /\ \A k \in ProfileMapKeys(The(op.profile)) : ~Contains(ret, k)

\* a profile with list and map fields and a session with fields are saved,
\* and the prompt has both sections
C7_Witness ==
    /\ C7_Case
    /\ ProfileMapKeys(The(op.profile)) # {}
    /\ Contains(ret, "USER PROFILE:")
    /\ Contains(ret, "weight_loss")
    /\ Contains(ret, "CURRENT SESSION:")
    /\ Contains(ret, "strict_ingredients")

---------------------------------------------------------------------------
(* The classifier on bounded queries (SpecClassify)                        *)

\* the queries of at most MaxFrags fragments
ClassifyQueries == UNION {[1..n -> Fragments] : n \in 0..MaxFrags}

InitClassify ==
    /\ files = [profiles |-> EmptyMap, conversations |-> EmptyMap, sessions |-> EmptyMap]
    /\ mtime = [profiles |-> EmptyMap, conversations |-> EmptyMap, sessions |-> EmptyMap]
    /\ context_cache = [profile |-> EmptyMap, conversation |-> EmptyMap, session |-> EmptyMap]
    /\ disk_ok = TRUE
    /\ now = 0
    /\ appended = [s \in Sessions |-> 0]
    /\ saved_profile = EmptyMap
    /\ peer_cache = [profile |-> EmptyMap, conversation |-> EmptyMap, session |-> EmptyMap]
    /\ requests = EmptyMap
    /\ otp_store = EmptyMap
    /\ db = EmptyDb
    /\ anthropic_mcp_validator = AnthropicMCPValidator
    /\ ret = None
    /\ \E q \in ClassifyQueries : op = [name |-> "query", query |-> q]

\* determine_prompt_type(query, context); the context argument is not read
Classify ==
    /\ op.name = "query"
    /\ op' = [name |-> "determine_prompt_type", query |-> op.query]
    /\ ret' = determine_prompt_type(op.query)
    /\ UNCHANGED <<files, mtime, context_cache, disk_ok, now, appended, saved_profile, peer_cache, requests, otp_store, db, anthropic_mcp_validator>>

NextClassify == Classify

SpecClassify == InitClassify /\ [][NextClassify]_vars

\* the query has a keyword of the list as a substring, case ignored
HasKeyword(keywords, query) == AnyKeywordIn(keywords, Lower(Chars(query)))

\* C5: determine_prompt_type returns one of the five types for every query:
\* recipe_generation exactly when a recipe keyword occurs, cooking_assistance
\* exactly when no recipe keyword but a cooking keyword occurs, then
\* ingredient_substitution, then technique_explanation, and general_query
\* exactly when no keyword of any list occurs.
C5_FirstMatchingList ==
    op.name = "determine_prompt_type"
        => LET r == HasKeyword(recipe_keywords, op.query)
               c == HasKeyword(cooking_keywords, op.query)
               b == HasKeyword(substitution_keywords, op.query)
               t == HasKeyword(technique_keywords, op.query)
           IN  /\ ret \in PromptTypes
               /\ (ret = "recipe_generation") <=> r
               /\ (ret = "cooking_assistance") <=> (~r /\ c)
               /\ (ret = "ingredient_substitution") <=> (~r /\ ~c /\ b)
               /\ (ret = "technique_explanation") <=> (~r /\ ~c /\ ~b /\ t)
               /\ (ret = "general_query") <=> (~r /\ ~c /\ ~b /\ ~t)

\* a query with a recipe keyword and a substitution keyword is a recipe query
C5_Witness ==
    /\ op.name = "determine_prompt_type"
    /\ HasKeyword(recipe_keywords, op.query)
    /\ HasKeyword(substitution_keywords, op.query)
    /\ ~HasKeyword(cooking_keywords, op.query)
    /\ ret = "recipe_generation"

---------------------------------------------------------------------------
(* ContextOptimizer._truncate_to_token_limit (SpecTrunc)                   *)
(* A context is a sequence of characters.  Token estimates are multiples   *)
(* of 0.25 and are kept as integers in quarter tokens.                     *)

max_context_tokens == 3000

\* the buffer of available_tokens
TokenBuffer == 100

\* len(words) * 0.75, in quarter tokens
Tokens4(word_count) == 3 * word_count

\* the k-th smallest member of a set of numbers
NthOf(S, k) == CHOOSE i \in S : Cardinality({j \in S : j <= i}) = k

\* text.split(): the maximal runs of characters other than whitespace
Split(text) ==
    LET starts == {i \in 1..Len(text) :
                    text[i] # " " /\ (i = 1 \/ text[i - 1] = " ")}
        ends == {i \in 1..Len(text) :
                    text[i] # " " /\ (i = Len(text) \/ text[i + 1] = " ")}
    IN  [k \in 1..Cardinality(starts) |->
            SubSeq(text, NthOf(starts, k), NthOf(ends, k))]

RECURSIVE JoinWords(_)
\* " ".join(words)
JoinWords(words) ==
    IF Len(words) = 0 THEN <<>>
    ELSE IF Len(words) = 1 THEN words[1]
    ELSE words[1] \o <<" ">> \o JoinWords(Tail(words))

\* text.rfind(ch): the 0-based index of the last ch, or -1
RFind(text, ch) ==
    LET found == {i \in 1..Len(text) : text[i] = ch}
    IN  IF found = {} THEN -1
        ELSE (CHOOSE i \in found : \A j \in found : j <= i) - 1

Max3(a, b, c) ==
    IF a >= b /\ a >= c THEN a ELSE IF b >= c THEN b ELSE c

\* Mutant: a context over the budget is returned as it is
_truncate_to_token_limit_keep(context, base_words, query_words) ==
    LET available4 == 4 * max_context_tokens - Tokens4(base_words)
                      - Tokens4(query_words) - 4 * TokenBuffer
    IN  IF available4 <= 0 THEN <<>> ELSE context

\* base_prompt and query are read through len(x.split()) only and are given
\* by that number
_truncate_to_token_limit(context, base_words, query_words) ==
    LET available4 == 4 * max_context_tokens - Tokens4(base_words)
                      - Tokens4(query_words) - 4 * TokenBuffer
        words == Split(context)
        \* int(available_tokens / 0.75)
        target_words == available4 \div 3
        truncated_words == SubSeq(words, 1, target_words)
        truncated_text == JoinWords(truncated_words)
        last_sentence_end == Max3(RFind(truncated_text, "."),
                                  RFind(truncated_text, "!"),
                                  RFind(truncated_text, "?"))
    IN  IF available4 <= 0 THEN <<>>
        ELSE IF Tokens4(Len(words)) <= available4 THEN context
        ELSE IF Len(words) <= target_words THEN context
        \* last_sentence_end > target_words * 0.7
        ELSE IF 10 * last_sentence_end > 7 * target_words
        THEN SubSeq(truncated_text, 1, last_sentence_end + 1)
        ELSE truncated_text \o <<".", ".", ".">>

ContextChars == {"a", " ", ".", "?"}

\* the contexts of at most MaxContextLen characters
ShortContexts == UNION {[1..n -> ContextChars] : n \in 0..MaxContextLen}

\* n copies of unit
Repeat(unit, n) == [i \in 1..(n * Len(unit)) |-> unit[((i - 1) % Len(unit)) + 1]]

\* contexts of more words than the buffer of available_tokens covers: words,
\* one-word sentences, and a sentence of two words followed by words
LongContexts ==
    {Repeat(unit, n) : unit \in {<<"a", " ">>, <<"a", ".", " ">>}, n \in 134..136}
        \cup {<<"a", " ", "a", ".", " ">> \o Repeat(<<"a", " ">>, n) : n \in 134..136}

TruncContexts == ShortContexts \cup LongContexts

\* word counts of the base prompt: around the point where nothing is left for
\* the context, and around the budget itself
BaseWordCounts == (3862 .. 3867) \cup (3998 .. 4001)

InitTrunc ==
    /\ files = [profiles |-> EmptyMap, conversations |-> EmptyMap, sessions |-> EmptyMap]
    /\ mtime = [profiles |-> EmptyMap, conversations |-> EmptyMap, sessions |-> EmptyMap]
    /\ context_cache = [profile |-> EmptyMap, conversation |-> EmptyMap, session |-> EmptyMap]
    /\ disk_ok = TRUE
    /\ now = 0
    /\ appended = [s \in Sessions |-> 0]
    /\ saved_profile = EmptyMap
    /\ peer_cache = [profile |-> EmptyMap, conversation |-> EmptyMap, session |-> EmptyMap]
    /\ requests = EmptyMap
    /\ otp_store = EmptyMap
    /\ db = EmptyDb
    /\ anthropic_mcp_validator = AnthropicMCPValidator
    /\ ret = None
    /\ \E c \in TruncContexts, b \in BaseWordCounts, q \in 0..MaxQueryWords :
            op = [name |-> "input", context |-> c, base_words |-> b, query_words |-> q]

Truncate ==
    /\ op.name = "input"
    /\ op' = [op EXCEPT !.name = "_truncate_to_token_limit"]
    /\ ret' = _truncate_to_token_limit(op.context, op.base_words, op.query_words)
    /\ UNCHANGED <<files, mtime, context_cache, disk_ok, now, appended, saved_profile, peer_cache, requests, otp_store, db, anthropic_mcp_validator>>

NextTrunc == Truncate

SpecTrunc == InitTrunc /\ [][NextTrunc]_vars

\* the base prompt and the query alone fit the budget
FitsBudget(base_words, query_words) ==
    Tokens4(base_words) + Tokens4(query_words) <= 4 * max_context_tokens

\* C8: when the base prompt and the query alone fit the budget, the estimate
\* of the returned context plus the estimates of the base prompt and of the
\* query is at most max_context_tokens.
C8_ResultFitsBudget ==
    (op.name = "_truncate_to_token_limit" /\ FitsBudget(op.base_words, op.query_words))
        => Tokens4(Len(Split(ret))) + Tokens4(op.base_words) + Tokens4(op.query_words)
              <= 4 * max_context_tokens

\* a context of more than a hundred one-word sentences is cut down to three
\* of them
C8_Witness ==
    /\ op.name = "_truncate_to_token_limit"
    /\ FitsBudget(op.base_words, op.query_words)
    /\ Len(Split(op.context)) > 100
    /\ Len(Split(ret)) = 3
    /\ ret[Len(ret)] = "."
    /\ ret[Len(ret) - 1] = "a"

---------------------------------------------------------------------------
(* EnhancedRAGService: search of the knowledge base (SpecSearch)           *)
(* A score is kept as an integer: the score of the code times 20 for each  *)
(* boost the profile can give, so that a boost of 1.2, 1.15 or 1.1         *)
(* multiplies by 24, 23 or 22 and a boost not given multiplies by 20.      *)

\* the tokens a search query is made of
QueryTokens == {"pancakes", "Eggs", "searing", "cook", "sous", "zzz"}

\* str.lower() on the words of the model
LowerWord(w) ==
    CASE w = "Eggs" -> "eggs"
      [] w = "Vegetarian" -> "vegetarian"
      [] OTHER -> w

\* the two items of _load_culinary_knowledge; text_words holds the lowered
\* tokens of QueryTokens that are substrings of f"{title} {content}".lower()
knowledge_base ==
    << [id |-> "baking_001",
        keywords |-> {"pancakes", "fluffy", "eggs", "buttermilk", "batter",
                      "folding", "air bubbles"},
        difficulty |-> "beginner",
        cuisine |-> "western",
        dietary_info |-> [vegetarian |-> TRUE, gluten_free |-> FALSE,
                          dairy_free |-> FALSE],
        text_words |-> {"pancakes", "cook"}],
       [id |-> "technique_001",
        keywords |-> {"sous vide", "vacuum seal", "temperature control",
                      "searing", "consistency"},
        difficulty |-> "intermediate",
        cuisine |-> "modern",
        dietary_info |-> [vegetarian |-> TRUE, gluten_free |-> TRUE,
                          dairy_free |-> TRUE],
        text_words |-> {"cook", "sous"}] >>

\* skill level boost: 1.2 for a beginner item, 1.1 for an advanced item
SkillFactor(item, profile) ==
    IF profile.skill_level = "beginner" /\ item.difficulty = "beginner" THEN 24
    ELSE IF profile.skill_level = "advanced" /\ item.difficulty = "advanced" THEN 22
    ELSE 20

\* the restriction is a key of dietary_info with a true value
RestrictionMet(item, restriction) ==
    /\ LowerWord(restriction) \in DOMAIN item.dietary_info
    /\ item.dietary_info[LowerWord(restriction)]

RECURSIVE DietFactor(_, _)
\* 1.1 for every restriction of the profile the item meets
DietFactor(item, restrictions) ==
    IF Len(restrictions) = 0 THEN 1
    ELSE (IF RestrictionMet(item, restrictions[1]) THEN 22 ELSE 20)
         * DietFactor(item, Tail(restrictions))

CuisineFactor(item, profile) ==
    IF \E i \in 1..Len(profile.cuisine_preferences) :
            profile.cuisine_preferences[i] = item.cuisine
    THEN 23 ELSE 20

IngredientFactor(item, profile) ==
    IF \E i \in 1..Len(profile.ingredient_preferences) :
            LowerWord(profile.ingredient_preferences[i]) \in item.keywords
    THEN 22 ELSE 20

\* user_profile is an Optional
_adjust_score_for_profile(score, item, user_profile) ==
    IF IsNone(user_profile) THEN score
    ELSE score * SkillFactor(item, The(user_profile))
               * DietFactor(item, The(user_profile).dietary_restrictions)
               * CuisineFactor(item, The(user_profile))
               * IngredientFactor(item, The(user_profile))

\* list.sort(key=score, reverse=True) puts x behind the entries that score
\* at least as much
InsertDesc(sorted, x) ==
    LET ahead == Cardinality({i \in 1..Len(sorted) : sorted[i][1] >= x[1]})
    IN  SubSeq(sorted, 1, ahead) \o <<x>> \o SubSeq(sorted, ahead + 1, Len(sorted))

RECURSIVE SortDesc(_)
SortDesc(results) ==
    IF Len(results) = 0 THEN <<>>
    ELSE InsertDesc(SortDesc(SubSeq(results, 1, Len(results) - 1)),
                    results[Len(results)])

\* results[:top_k] for top_k >= 0
FirstK(results, top_k) ==
    SubSeq(results, 1, IF top_k < Len(results) THEN top_k ELSE Len(results))

\* set(re.findall(r'\b\w+\b', query.lower())) for a query given by its tokens
query_words(query) == {LowerWord(query[i]) : i \in 1..Len(query)}

\* keyword_matches * 2 + text_matches
base_score(query, item) ==
    2 * Cardinality(query_words(query) \cap item.keywords)
    + Cardinality(query_words(query) \cap item.text_words)

RECURSIVE ScoredItems(_, _, _)
\* the (score, item id) pairs of the items from the i-th on with a positive
\* base score
ScoredItems(i, query, user_profile) ==
    IF i > Len(knowledge_base) THEN <<>>
    ELSE (IF base_score(query, knowledge_base[i]) > 0
          THEN << <<_adjust_score_for_profile(base_score(query, knowledge_base[i]),
                                              knowledge_base[i], user_profile),
                    knowledge_base[i].id>> >>
          ELSE <<>>)
         \o ScoredItems(i + 1, query, user_profile)

\* Mutant: every scored item is returned
_simple_search_no_cut(query, top_k, user_profile) ==
    SortDesc(ScoredItems(1, query, user_profile))

_simple_search(query, top_k, user_profile) ==
    FirstK(SortDesc(ScoredItems(1, query, user_profile)), top_k)

\* knowledge_base[idx] for a 0-based idx; a negative idx counts from the end
ItemAt(idx) ==
    IF idx >= 0 THEN knowledge_base[idx + 1]
    ELSE knowledge_base[Len(knowledge_base) + idx + 1]

RECURSIVE Reranked(_, _)
\* the hits with idx < len(knowledge_base), re-scored for the profile
Reranked(hits, user_profile) ==
    IF Len(hits) = 0 THEN <<>>
    ELSE (IF hits[1][2] < Len(knowledge_base)
          THEN << <<_adjust_score_for_profile(hits[1][1], ItemAt(hits[1][2]),
                                              user_profile),
                    ItemAt(hits[1][2]).id>> >>
          ELSE <<>>)
         \o Reranked(Tail(hits), user_profile)

\* hits is what faiss_index.search returns for the embedding of the query:
\* (similarity, idx) pairs
_semantic_search(query, top_k, user_profile, index_available, embedding_ok, hits) ==
    IF ~index_available THEN _simple_search(query, top_k, user_profile)
    ELSE IF ~embedding_ok THEN _simple_search(query, top_k, user_profile)
    ELSE FirstK(SortDesc(Reranked(hits, user_profile)), top_k)

\* the search queries: at most MaxQueryTokens tokens
SearchQueries == UNION {[1..n -> QueryTokens] : n \in 0..MaxQueryTokens}

\* no profile, a beginner with nothing else, and two profiles with dietary
\* restrictions, cuisines and ingredients
SearchProfiles ==
    { None,
      Some(NewUserProfile("u1", DefaultArgs, 0)),
      Some(NewUserProfile("u1",
            [DefaultArgs EXCEPT
                !.skill_level = "advanced",
                !.dietary_restrictions = Some(<<"Vegetarian", "gluten_free">>),
                !.cuisine_preferences = Some(<<"modern">>),
                !.ingredient_preferences = Some(<<"Eggs">>)], 0)),
      Some(NewUserProfile("u1",
            [DefaultArgs EXCEPT
                !.skill_level = "intermediate",
                !.dietary_restrictions = Some(<<"vegan">>),
                !.cuisine_preferences = Some(<<"western">>),
                !.ingredient_preferences = Some(<<"searing">>)], 0)) }

\* inner products of normalised embeddings, in tenths
RawScores == {-1, 0, 2}

\* the labels of the hits: -1 for a missing neighbour, len(knowledge_base)
\* for one past the end
HitIdx == -1 .. Len(knowledge_base)

\* what faiss_index.search(query_embedding, top_k * 2) can return: at most
\* top_k * 2 hits, and at most MaxHits, by non-increasing similarity
FaissHits(top_k) ==
    {h \in UNION {[1..n -> RawScores \X HitIdx] : n \in 0..MaxHits} :
        /\ Len(h) <= 2 * top_k
        /\ \A i \in 1..(Len(h) - 1) : h[i][1] >= h[i + 1][1]}

InitSearch ==
    /\ files = [profiles |-> EmptyMap, conversations |-> EmptyMap, sessions |-> EmptyMap]
    /\ mtime = [profiles |-> EmptyMap, conversations |-> EmptyMap, sessions |-> EmptyMap]
    /\ context_cache = [profile |-> EmptyMap, conversation |-> EmptyMap, session |-> EmptyMap]
    /\ disk_ok = TRUE
    /\ now = 0
    /\ appended = [s \in Sessions |-> 0]
    /\ saved_profile = EmptyMap
    /\ peer_cache = [profile |-> EmptyMap, conversation |-> EmptyMap, session |-> EmptyMap]
    /\ requests = EmptyMap
    /\ otp_store = EmptyMap
    /\ db = EmptyDb
    /\ anthropic_mcp_validator = AnthropicMCPValidator
    /\ ret = None
    /\ \E q \in SearchQueries, k \in 0..MaxK, p \in SearchProfiles,
          avail \in BOOLEAN, ok \in BOOLEAN :
          \E h \in (IF avail /\ ok THEN FaissHits(k) ELSE {<<>>}) :
            \* the vector search reads the query through its embedding only
            /\ (avail /\ ok) => Len(q) <= 1
            /\ op = [name |-> "input", query |-> q, top_k |-> k, user_profile |-> p,
                     index_available |-> avail, embedding_ok |-> ok, hits |-> h]

SemanticSearch ==
    /\ op.name = "input"
    /\ op' = [op EXCEPT !.name = "_semantic_search"]
    /\ ret' = _semantic_search(op.query, op.top_k, op.user_profile,
                               op.index_available, op.embedding_ok, op.hits)
    /\ UNCHANGED <<files, mtime, context_cache, disk_ok, now, appended, saved_profile, peer_cache, requests, otp_store, db, anthropic_mcp_validator>>

NextSearch == SemanticSearch

SpecSearch == InitSearch /\ [][NextSearch]_vars

\* C9: with the vector index unavailable or the embedding call failing,
\* _semantic_search returns what the keyword scorer returns: at most top_k
\* (score, item) pairs, by non-increasing score.
C9_FallbackToKeywordSearch ==
    (op.name = "_semantic_search" /\ (~op.index_available \/ ~op.embedding_ok))
        => /\ ret = _simple_search(op.query, op.top_k, op.user_profile)
           /\ Len(ret) <= op.top_k
           /\ \A i \in 1..(Len(ret) - 1) : ret[i][1] >= ret[i + 1][1]
           /\ \A i \in 1..Len(ret) :
                \E n \in 1..Len(knowledge_base) :
                    /\ ret[i][2] = knowledge_base[n].id
                    /\ base_score(op.query, knowledge_base[n]) > 0

\* the embedding call fails, both items score, and the second item of the
\* knowledge base comes first
C9_Witness ==
    /\ op.name = "_semantic_search"
    /\ op.index_available
    /\ ~op.embedding_ok
    /\ op.top_k = 2
    /\ Len(ret) = 2
    /\ ret[1][2] = "technique_001"
    /\ ret[1][1] > ret[2][1]

\* what of the profile an item matches: the boosts it is given
MatchedAttributes(item, profile) ==
    (IF SkillFactor(item, profile) # 20 THEN {<<"skill_level", 0>>} ELSE {})
    \cup {<<"dietary_restrictions", i>> : i \in
            {n \in 1..Len(profile.dietary_restrictions) :
                RestrictionMet(item, profile.dietary_restrictions[n])}}
    \cup (IF CuisineFactor(item, profile) # 20 THEN {<<"cuisine", 0>>} ELSE {})
    \cup (IF IngredientFactor(item, profile) # 20 THEN {<<"ingredients", 0>>} ELSE {})

\* the place of the item in the results
PositionOf(results, id) == CHOOSE n \in 1..Len(results) : results[n][2] = id

\* C10 as stated: of the two items of the knowledge base, returned by the
\* index with the same similarity, the one that matches all the other matches
\* and more has an adjusted score no lower, and does not come behind the other
\* with a different score.
C10_BoostMonotonic ==
    (/\ op.name = "_semantic_search"
     /\ op.index_available /\ op.embedding_ok
     /\ ~IsNone(op.user_profile)
     /\ op.top_k >= 2
     /\ Len(op.hits) = 2
     /\ {op.hits[1][2], op.hits[2][2]} = {0, 1}
     /\ op.hits[1][1] = op.hits[2][1])
        => \A i, j \in {1, 2} :
            LET a == ItemAt(op.hits[i][2])
                b == ItemAt(op.hits[j][2])
                profile == The(op.user_profile)
                score_a == _adjust_score_for_profile(op.hits[i][1], a, op.user_profile)
                score_b == _adjust_score_for_profile(op.hits[j][1], b, op.user_profile)
            IN  (/\ MatchedAttributes(b, profile) \subseteq MatchedAttributes(a, profile)
                 /\ MatchedAttributes(b, profile) # MatchedAttributes(a, profile))
                    => /\ score_a >= score_b
                       /\ ~(/\ PositionOf(ret, a.id) > PositionOf(ret, b.id)
                            /\ score_a # score_b)



---------------------------------------------------------------------------
(* ContextManager.cleanup_old_context (SpecCleanup)                        *)
(* The clock of this specification counts hours.                           *)

\* self.max_context_age = timedelta(hours=24)
max_context_age == 24

\* the directories the loop lists: f"{storage_path}/{context_type.value}s" for
\* CONVERSATION_HISTORY = "conversation_history", SESSION_CONTEXT = "session_context"
CleanupDirs == {"conversation_historys", "session_contexts"}

\* the files of a directory last written before the cutoff
FilesOlderThan(st, dir, cutoff_time) ==
    {[dir |-> dir, name |-> f] : f \in {g \in DOMAIN st.mtime[dir] :
                                          st.mtime[dir][g] < cutoff_time}}

cleanup_old_context(st) ==
    LET cutoff_time == st.now - max_context_age
        \* os.path.exists(context_dir)
        listed == CleanupDirs \cap DOMAIN st.files
        removed == UNION {FilesOlderThan(st, d, cutoff_time) : d \in listed}
        Kept(d) == {f \in DOMAIN st.files[d] : [dir |-> d, name |-> f] \notin removed}
    IN  [st |-> [st EXCEPT
                   !.files = [d \in DOMAIN st.files |->
                                [f \in Kept(d) |-> st.files[d][f]]],
                   !.mtime = [d \in DOMAIN st.mtime |->
                                [f \in Kept(d) |-> st.mtime[d][f]]]],
         ret |-> Cardinality(removed)]

\* the clock readings of the specification, in hours
ClockReadings == {24, 25}

Advance ==
    \E t \in ClockReadings :
        /\ t > now
        /\ now' = t
        /\ op' = [name |-> "advance"]
        /\ ret' = None
        /\ UNCHANGED <<files, mtime, context_cache, disk_ok, appended, saved_profile,
                       peer_cache, requests, otp_store, db, anthropic_mcp_validator>>

CleanupOldContext ==
    LET r == cleanup_old_context(Store)
    IN  /\ SetStore(r.st)
        /\ ret' = r.ret
        /\ op' = [name |-> "cleanup_old_context", files |-> files, mtime |-> mtime]
        /\ UNCHANGED <<appended, saved_profile, peer_cache, requests, otp_store, db, anthropic_mcp_validator>>

NextCleanup ==
    \/ SaveProfile
    \/ SaveSession
    \/ AddMessageStore
    \/ Advance
    \/ CleanupOldContext

SpecCleanup == Init /\ [][NextCleanup]_vars

\* the session and conversation files of a file system that are older than
\* max_context_age at time t
OldContextFiles(m, t) ==
    UNION {FilesOlderThan([mtime |-> m], d, t - max_context_age) :
             d \in {"sessions", "conversations"}}

\* C11: cleanup_old_context deletes every session file and conversation file of
\* the store that is older than 24 hours, deletes no profile file and no younger
\* file, and returns the number of files it deleted.
C11_CleanupDeletesOldFiles ==
    op.name = "cleanup_old_context" =>
        LET old == OldContextFiles(op.mtime, now)
        IN  /\ \A k \in old : ~FileExists(Store, k)
            /\ \A d \in DOMAIN op.files : \A f \in DOMAIN op.files[d] :
                  [dir |-> d, name |-> f] \notin old
                      => /\ FileExists(Store, [dir |-> d, name |-> f])
                         /\ files[d][f] = op.files[d][f]
            /\ ret = Cardinality(old)


---------------------------------------------------------------------------
(* EnhancedRAGService: responses and recipes                               *)
(* The hosted chat-completion call is an input of the operators: it raises *)
(* or returns a message whose content is None or a text.                   *)

Whitespace == {" ", "\n"}

\* str.strip() on a text
Strip(text) ==
    LET kept == {i \in 1..Len(text) : text[i] \notin Whitespace}
    IN  IF kept = {} THEN <<>>
        ELSE SubSeq(text, CHOOSE i \in kept : \A j \in kept : i <= j,
                          CHOOSE i \in kept : \A j \in kept : i >= j)

RECURSIVE Str(_)
\* the str a text stands for, as one piece
Str(text) == IF Len(text) = 0 THEN "" ELSE text[1] \o Str(Tail(text))

\* query.lower().split() sees the words of the text
Words(text) == SelectSeq(text, LAMBDA piece : piece \notin Whitespace)

\* title, category, cooking_time and equipment of the knowledge items; the
\* opening words of the content stand for the content
knowledge_text ==
    [baking_001 |->
        [title |-> "Fluffy Pancake Technique", category |-> "baking",
         content |-> "To make fluffy pancakes, separate egg whites",
         cooking_time |-> "15-20 minutes",
         equipment |-> <<"mixing bowl", "whisk", "frying pan", "spatula">>],
     technique_001 |->
        [title |-> "Sous Vide Cooking", category |-> "techniques",
         content |-> "Sous vide cooking: Vacuum seal food in bags",
         cooking_time |-> "1-24 hours",
         equipment |-> <<"sous vide machine", "vacuum sealer", "water bath",
                         "searing pan">>]]

\* the text of one (score, item) pair
KnowledgePart(id) ==
    LET item == CHOOSE k \in {knowledge_base[i] : i \in 1..Len(knowledge_base)} :
                    k.id = id
        text == knowledge_text[id]
        dietary_tags == SelectSeq(<<"vegetarian", "gluten_free", "dairy_free">>,
                                  LAMBDA k : item.dietary_info[k])
    IN  <<"**", text.title, "** (", text.category, ", ", item.difficulty, " level)",
          "\n", text.content,
          "\n", "Cooking Time: ", text.cooking_time,
          "\n", "Equipment: ">> \o JoinPieces(text.equipment, ", ")
        \o (IF Len(dietary_tags) > 0
            THEN <<"\n", "Dietary: ">> \o JoinPieces(dietary_tags, ", ")
            ELSE <<>>)

_build_knowledge_context(knowledge_items) ==
    JoinTexts([i \in 1..Len(knowledge_items) |-> KnowledgePart(knowledge_items[i][2])],
              "\n\n")

\* the opening words stand for the instruction
conversational_instruction ==
    <<"\n\n", "IMPORTANT: You are a conversational AI assistant.">>

ApologyText ==
    "I'm having trouble processing your request right now. Please try again in a moment."

\* response.choices[0].message.content.strip() raises on a content of None
CompletionRaises(completion) == completion.raises \/ IsNone(completion.content)

\* Mutant: the exchange is saved before the reply of the hosted call is read
AnswerSaveFirst(st, user_id, session_id, user_query, completion) ==
    LET ai_response == IF CompletionRaises(completion) THEN ""
                       ELSE Str(Strip(The(completion.content)))
        added == add_message_to_conversation(st, session_id, user_id, Str(user_query),
                                             ai_response, "general")
    IN  [st |-> added.st,
         ret |-> IF CompletionRaises(completion) THEN ApologyText ELSE ai_response]

\* Mutant: a SessionContext is saved with the exchange
AnswerWithSession(st, user_id, session_id, user_query, completion) ==
    IF CompletionRaises(completion)
    THEN [st |-> st, ret |-> ApologyText]
    ELSE LET ai_response == Str(Strip(The(completion.content)))
             added == add_message_to_conversation(st, session_id, user_id,
                            Str(user_query), ai_response, "general")
             saved == save_session_context(added.st,
                            NewSessionContext(session_id, user_id, SessionEmpty, st.now))
         IN  [st |-> saved.st, ret |-> ai_response]

\* Mutant: the text of the model is returned and saved as it came
AnswerRaw(st, user_id, session_id, user_query, completion) ==
    IF CompletionRaises(completion)
    THEN [st |-> st, ret |-> ApologyText]
    ELSE LET ai_response == Str(The(completion.content))
             added == add_message_to_conversation(st, session_id, user_id,
                            Str(user_query), ai_response, "general")
         IN  [st |-> added.st, ret |-> ai_response]

\* the hosted call, the reading of its reply and the saving of the exchange;
\* an exception leaves the try block for the apology
Answer(st, user_id, session_id, user_query, completion) ==
    IF CompletionRaises(completion)
    THEN [st |-> st, ret |-> ApologyText]
    ELSE LET ai_response == Str(Strip(The(completion.content)))
             added == add_message_to_conversation(st, session_id, user_id,
                            Str(user_query), ai_response, "general")
         IN  [st |-> added.st, ret |-> ai_response]

\* search is [index_available, hits]: the state of the vector index and what it
\* returns; prompt is the system prompt handed to the hosted call
generate_contextual_response(st, user_id, session_id, user_query, context, search, completion) ==
    LET enhanced_prompt(built, relevant_knowledge) ==
            built.ret
            \o (IF Len(relevant_knowledge) > 0
                THEN <<"\n\n", "RELEVANT KNOWLEDGE:", "\n">>
                     \o _build_knowledge_context(relevant_knowledge)
                ELSE <<>>)
            \o conversational_instruction
        Respond(answered, prompt) ==
            [st |-> answered.st, ret |-> answered.ret, prompt |-> prompt]
        \* the steps after the prompt is built
        Generate(built, relevant_knowledge) ==
            Respond(Answer(built.st, user_id, session_id, user_query, completion),
                    enhanced_prompt(built, relevant_knowledge))
        \* the steps after the profile is loaded: the history is loaded, the
        \* knowledge searched and the prompt built
        Retrieve(l1) ==
            Generate(build_enhanced_prompt(load_conversation_context(l1.st, session_id).st,
                                           user_id, session_id, user_query, context),
                     _semantic_search(Words(user_query), 5, l1.ret, search.index_available,
                                      TRUE, search.hits))
    IN  Retrieve(load_user_profile(st, user_id))

RecipeQuery ==
    <<"Generate personalized recipes based on my preferences and available ingredients">>

\* parsed is the number of recipes _parse_recipe_response finds in the text of
\* the model; the call returns that many recipes
generate_contextual_recipes(st, user_id, session_id, ingredients, completion, parsed) ==
    LET recipe_context == [ingredients |-> ingredients]
        \* the steps after the prompt is built
        Generate(built) ==
            IF CompletionRaises(completion) \/ JoinRaises(ingredients)
            THEN [st |-> built.st, ret |-> 0]
            ELSE LET added == add_message_to_conversation(built.st, session_id, user_id,
                                Str(<<"Generated recipes with ingredients: ">>
                                    \o JoinPieces(ingredients, ", ")),
                                "Generated " \o ToString(parsed) \o " personalized recipes",
                                "recipe_generation")
                 IN  [st |-> added.st, ret |-> parsed]
    IN  Generate(build_enhanced_prompt(load_user_profile(st, user_id).st, user_id,
                                       session_id, RecipeQuery, recipe_context))


---------------------------------------------------------------------------
(* The routes of the chatbot and recipes blueprints (SpecChat, SpecRoutes) *)
(* A reply is [status, body]; the user id is the identity of the token.    *)

\* Mutant: no attribute is set
SetAttrsNone(obj, data) == obj

\* setattr(obj, key, value) for every key of data that is an attribute
SetAttrs(obj, data) ==
    [f \in DOMAIN obj |-> IF f \in DOMAIN data THEN data[f] ELSE obj[f]]

RouteApology ==
    "I apologize, but I'm having trouble processing your request right now. Please try again in a moment."

\* data is [message, session_id, context]; a message that is not a str has
\* no strip()
chat(st, user_id, data, search, completion) ==
    IF JoinRaises(data.message)
    THEN [st |-> st,
          ret |-> [status |-> 500,
                   body |-> [success |-> FALSE, response |-> RouteApology]]]
    ELSE LET user_message == Strip(data.message)
         IN  IF Len(user_message) = 0
             THEN [st |-> st,
                   ret |-> [status |-> 400, body |-> [error |-> "Message is required"]]]
             ELSE LET Reply(r) ==
                          [st |-> r.st,
                           ret |-> [status |-> 200,
                                    body |-> [success |-> TRUE, response |-> r.ret,
                                              user_message |-> Str(user_message),
                                              session_id |-> data.session_id],
                                    prompt |-> r.prompt]]
                  IN  Reply(generate_contextual_response(st, user_id, data.session_id,
                                user_message, data.context, search, completion))

\* " ".join(starter_parts)
create_conversation_starter(st, user_id, session_id) ==
    LET l1 == load_user_profile(st, user_id)
        l2 == load_session_context(l1.st, session_id)
        skill_greeting ==
            IF IsNone(l1.ret) \/ The(l1.ret).skill_level = "" THEN None
            ELSE Some(<<CASE The(l1.ret).skill_level = "beginner" ->
                               "I'm here to help you learn cooking basics"
                          [] The(l1.ret).skill_level = "intermediate" ->
                               "I'm excited to help you expand your cooking skills"
                          [] The(l1.ret).skill_level = "advanced" ->
                               "I'm ready to help you master advanced techniques"
                          [] OTHER -> "">>)
        ingredients == IF IsNone(l2.ret) THEN <<>> ELSE The(l2.ret).current_ingredients
        offer ==
            IF Len(ingredients) = 0 THEN None
            ELSE Some(<<"I see you have ">>
                      \o JoinPieces(FirstK(ingredients, 3), ", ")
                      \o <<" available. Would you like me to suggest some recipes?">>)
        raises == Len(ingredients) > 0 /\ JoinRaises(ingredients)
    IN  [st |-> l2.st,
         ret |-> IF raises
                 THEN <<"Hello! I'm CulinaMind, your AI culinary assistant. What would you like to cook today?">>
                 ELSE JoinTexts(Present(<<Some(<<"Hello! I'm CulinaMind, your AI culinary assistant.">>),
                                          skill_greeting, offer,
                                          Some(<<"What would you like to cook today?">>)>>),
                                " ")]

start_conversation(st, user_id, session_id) ==
    LET greeted == create_conversation_starter(st, user_id, session_id)
        session_context == NewSessionContext(session_id, user_id, SessionEmpty,
                                             greeted.st.now)
        saved == save_session_context(greeted.st, session_context)
    IN  [st |-> saved.st,
         ret |-> [status |-> 200,
                  body |-> [success |-> TRUE, greeting |-> greeted.ret,
                            session_id |-> session_id]]]

update_session(st, user_id, session_id, session_data) ==
    LET loaded == load_session_context(st, session_id)
        session_context ==
            SetAttrs(IF IsNone(loaded.ret)
                     THEN NewSessionContext(session_id, user_id, SessionEmpty,
                                            loaded.st.now)
                     ELSE The(loaded.ret),
                     session_data)
        \* a loaded session is the cached object: it is changed in place
        st1 == IF session_id \in DOMAIN loaded.st.cache.session
               THEN [loaded.st EXCEPT !.cache.session[session_id] = session_context]
               ELSE loaded.st
        saved == save_session_context(st1, session_context)
    IN  [st |-> saved.st,
         ret |-> IF saved.ret
                 THEN [status |-> 200,
                       body |-> [success |-> TRUE, session_id |-> session_id]]
                 ELSE [status |-> 500,
                       body |-> [success |-> FALSE,
                                 error |-> "Failed to update session"]]]


\* the messages of the chat requests: a query, a query in white space, white
\* space only, and a JSON number
ChatMessages == { <<"eggs">>, <<" ", "substitute", "\n">>, <<" ">>, <<"#5">> }

\* what the hosted chat-completion call does: it raises, or it returns a
\* message without content, a text, or a text in white space
Completions ==
    { [raises |-> TRUE, content |-> None],
      [raises |-> FALSE, content |-> None],
      [raises |-> FALSE, content |-> Some(<<"Whisk the eggs">>)],
      [raises |-> FALSE, content |-> Some(<<" ", "Use butter", "\n">>)] }

\* no vector index, or an index that returns the second knowledge item
Searches ==
    { [index_available |-> FALSE, hits |-> <<>>],
      [index_available |-> TRUE, hits |-> << <<2, 1>> >>] }

\* the session_data of the update-session requests; the last one names a key
\* that is no attribute
SessionUpdates ==
    { [current_cuisine |-> Some("italian")],
      [user_id |-> "u2"],
      [cooking_mode |-> Some("flexible"), mood |-> Some("hungry")] }

\* the log and the session record a load would return
LogOf(st, session_id) ==
    LET loaded == load_conversation_context(st, session_id)
    IN  IF IsNone(loaded.ret) THEN <<>> ELSE The(loaded.ret).messages

\* the log in the conversation file of a session, if there is one
StoredLog(st, session_id) ==
    IF FileExists(st, FileKey("conversations", session_id))
    THEN Some(ReadFile(st, FileKey("conversations", session_id)).messages)
    ELSE None

Chat ==
    \E u \in StoreUsers, s \in StoreSessions, message \in ChatMessages,
       search \in Searches, completion \in Completions :
        /\ appended[s] < MaxRouteAppends
        /\ \E r \in {chat(Store, u, [message |-> message, session_id |-> s,
                                      context |-> EmptyMap], search, completion)} :
               /\ SetStore(r.st)
               /\ ret' = r.ret
               /\ appended' = [appended EXCEPT ![s] =
                                 IF LogOf(r.st, s) # LogOf(Store, s) THEN @ + 1 ELSE @]
               /\ op' = [name |-> "chat", user_id |-> u, session_id |-> s,
                         message |-> message, completion |-> completion,
                         log |-> LogOf(Store, s),
                         file |-> StoredLog(Store, s),
                         session |-> load_session_context(Store, s).ret]
               /\ UNCHANGED <<saved_profile, peer_cache, requests, otp_store, db, anthropic_mcp_validator>>

\* generate_recipes: the recipes of the service are returned with status 200
GenerateRecipes ==
    \E u \in StoreUsers, s \in StoreSessions, completion \in Completions, parsed \in {0, 2} :
        /\ appended[s] < MaxRouteAppends
        /\ \E r \in {generate_contextual_recipes(Store, u, s,
                        <<"eggs", "flour", "milk", "salt">>, completion, parsed)} :
               /\ SetStore(r.st)
               /\ ret' = [status |-> 200, body |-> [data |-> r.ret, session_id |-> s]]
               /\ appended' = [appended EXCEPT ![s] =
                                 IF LogOf(r.st, s) # LogOf(Store, s) THEN @ + 1 ELSE @]
               /\ op' = [name |-> "generate_recipes", user_id |-> u, session_id |-> s,
                         completion |-> completion,
                         log |-> LogOf(Store, s),
                         file |-> StoredLog(Store, s),
                         session |-> load_session_context(Store, s).ret]
               /\ UNCHANGED <<saved_profile, peer_cache, requests, otp_store, db, anthropic_mcp_validator>>

StartConversationBy(users) ==
    \E u \in users, s \in StoreSessions :
        LET r == start_conversation(Store, u, s)
        IN  /\ SetStore(r.st)
            /\ ret' = r.ret
            /\ op' = [name |-> "start_conversation", user_id |-> u, session_id |-> s,
                      session |-> load_session_context(Store, s).ret]
            /\ UNCHANGED <<appended, saved_profile, peer_cache, requests, otp_store, db, anthropic_mcp_validator>>

UpdateSession ==
    \E u \in Users, s \in StoreSessions, session_data \in SessionUpdates :
        LET r == update_session(Store, u, s, session_data)
        IN  /\ SetStore(r.st)
            /\ ret' = r.ret
            /\ op' = [name |-> "update_session", user_id |-> u, session_id |-> s,
                      session_data |-> session_data,
                      session |-> load_session_context(Store, s).ret]
            /\ UNCHANGED <<appended, saved_profile, peer_cache, requests, otp_store, db, anthropic_mcp_validator>>

StartConversation == StartConversationBy(Users)

NextChat ==
    \/ Chat
    \/ GenerateRecipes
    \/ StartConversationBy(StoreUsers)
    \/ Restart

\* the requests of one user on one session
SpecChat == Init /\ [][NextChat]_vars

NextRoutes ==
    \/ StartConversation
    \/ UpdateSession
    \/ Restart

\* the session requests of two users
SpecRoutes == Init /\ [][NextRoutes]_vars


---------------------------------------------------------------------------
(* Claims about the chat and recipe requests (SpecChat)                    *)

\* the chat request reached generate_contextual_response
ChatAnswered == op.name = "chat" /\ ret.status = 200

\* C12: when a step of generate_contextual_response raises (the hosted call
\* fails, or its message has no content), the call returns the fixed apology
\* without raising and the conversation log of the session, cached and
\* stored, is as it was: no exchange is appended.
C12_FailureGivesApology ==
    (ChatAnswered /\ CompletionRaises(op.completion)) =>
        /\ ret.body.response = ApologyText
        /\ LogOf(Store, op.session_id) = op.log
        /\ StoredLog(Store, op.session_id) = op.file

\* a failed hosted call on a session that already has an exchange
C12_Witness ==
    /\ ChatAnswered
    /\ op.completion.raises
    /\ ret.body.response = ApologyText
    /\ Len(op.log) = 1
    /\ LogOf(Store, op.session_id) = op.log

\* the entry add_message_to_conversation makes of a query and a response
ExchangeOf(query, response) ==
    [timestamp |-> IsoFormat(Datetime(now)), user_message |-> query,
     ai_response |-> response, context_type |-> "general"]

\* C13 as stated: a call whose hosted call succeeds returns the raw text of the
\* model and appends the query with that text.
C13_AsStated ==
    (ChatAnswered /\ ~CompletionRaises(op.completion)) =>
        /\ ret.body.response = Str(The(op.completion.content))
        /\ LogOf(Store, op.session_id)
             = AppendAndTrim(op.log, ExchangeOf(Str(Strip(op.message)),
                                                Str(The(op.completion.content))))

\* C13: a call whose hosted call succeeds with a text returns that text with its
\* leading and trailing white space removed, and appends exactly one exchange,
\* the query with that stripped text, to the cached and the stored log of the
\* session.  The prompt of the call was built before: it shows the exchanges of
\* the earlier calls and no history when there were none.
C13_StrippedTextAppended ==
    (ChatAnswered /\ ~CompletionRaises(op.completion)) =>
        LET text == Str(Strip(The(op.completion.content)))
            log == AppendAndTrim(op.log, ExchangeOf(Str(Strip(op.message)), text))
        IN  /\ ret.body.response = text
            /\ LogOf(Store, op.session_id) = log
            /\ StoredLog(Store, op.session_id) = Some(log)
            /\ \A i \in 1..Len(op.log) : Contains(ret.prompt, op.log[i].ai_response)
            /\ op.log = <<>> => ~Contains(ret.prompt, "RECENT CONVERSATION:")

\* the second call on a session: its prompt shows the reply of the first, and
\* the reply of the second, stripped of its white space, is appended behind it
C13_Witness ==
    /\ ChatAnswered
    /\ Len(op.log) = 1
    /\ op.log[1].ai_response = "Whisk the eggs"
    /\ Contains(ret.prompt, "RECENT CONVERSATION:")
    /\ Contains(ret.prompt, "Whisk the eggs")
    /\ op.completion.content = Some(<<" ", "Use butter", "\n">>)
    /\ ret.body.response = "Use butter"
    /\ Len(LogOf(Store, op.session_id)) = 2
    /\ LogOf(Store, op.session_id)[2].ai_response = "Use butter"

\* a chat or generate-recipes request on a session without session record
FirstRequestOfSession ==
    /\ op.name \in {"chat", "generate_recipes"}
    /\ ret.status = 200
    /\ IsNone(op.session)

\* C17 as stated: after the first chat or recipe-generation request of a
\* session, load_session_context returns a session record.
C17_AsStated ==
    FirstRequestOfSession => ~IsNone(load_session_context(Store, op.session_id).ret)

\* C17: a chat or recipe-generation request creates no SessionContext: on a
\* session without one, load_session_context returns None afterwards as before
\* and no session file is written; what a request with a successful hosted call
\* creates is the conversation record of the session.
C17_NoSessionFromChat ==
    FirstRequestOfSession =>
        /\ IsNone(load_session_context(Store, op.session_id).ret)
        /\ ~FileExists(Store, FileKey("sessions", op.session_id))
        /\ ~CompletionRaises(op.completion)
             => FileExists(Store, FileKey("conversations", op.session_id))

\* the first chat of a session, answered by the model: a conversation file and
\* no session
C17_Witness ==
    /\ FirstRequestOfSession
    /\ op.name = "chat"
    /\ op.log = <<>>
    /\ ~CompletionRaises(op.completion)
    /\ FileExists(Store, FileKey("conversations", op.session_id))
    /\ IsNone(load_session_context(Store, op.session_id).ret)

\* C18: when the hosted chat-completion call fails while a chat request with a
\* message is handled, the reply has status 500 and the apologetic text, and
\* is no success body.
C18_CompletionFailureGives500 ==
    (/\ op.name = "chat"
     /\ op.completion.raises
     /\ ~JoinRaises(op.message)
     /\ Len(Strip(op.message)) > 0) =>
        /\ ret.status = 500
        /\ ret.body.success = FALSE
        /\ ret.body.response = RouteApology

---------------------------------------------------------------------------
(* Claims about the session requests (SpecRoutes)                          *)

\* C16: a session keeps the user who created it: after a start-conversation or
\* update-session request, the stored user_id of the session is the user_id it
\* had before, or the requesting user when the session did not exist.
C16_SessionKeepsOwner ==
    op.name \in {"start_conversation", "update_session"} =>
        ReadFile(Store, FileKey("sessions", op.session_id)).user_id
            = IF IsNone(op.session) THEN op.user_id ELSE The(op.session).user_id


---------------------------------------------------------------------------
(* Records of several users and sessions in one store (SpecIsolation)      *)
(* The session id of a request is the string the client sent.              *)

\* the session ids of the requests
RequestSessionIds == Sessions \cup {TraversalId}

\* a write of the store, with the files and the cache it found
WriteStep(name, kind, id, r) ==
    /\ SetStore(r.st)
    /\ ret' = r.ret
    /\ op' = [name |-> name, kind |-> kind, id |-> id,
              files |-> files, cache |-> context_cache]
    /\ UNCHANGED <<appended, saved_profile, peer_cache, requests, otp_store, db, anthropic_mcp_validator>>

SaveProfileOfUser ==
    \E u \in Users :
        WriteStep("save_user_profile", "profile", u,
                  save_user_profile(Store, NewUserProfile(u, ProfileA, now)))

SaveSessionOfId ==
    \E s \in RequestSessionIds, u \in Users :
        WriteStep("save_session_context", "session", s,
                  save_session_context(Store, NewSessionContext(s, u, SessionEmpty, now)))

AddMessageOfId ==
    \E s \in RequestSessionIds, u \in Users :
        /\ Len(LogOf(Store, s)) < MaxIsolationAppends
        /\ WriteStep("add_message_to_conversation", "conversation", s,
                     add_message_to_conversation(Store, s, u, "eggs", "Whisk the eggs",
                                                 "general"))

NextIsolation ==
    \/ SaveProfileOfUser
    \/ SaveSessionOfId
    \/ AddMessageOfId

SpecIsolation == Init /\ [][NextIsolation]_vars

\* the file and the cache entry of a record
RecordOf(f, cache, dir, kind, id) ==
    [stored |-> IF id \in DOMAIN f[dir] THEN Some(f[dir][id]) ELSE None,
     cached |-> IF id \in DOMAIN cache[kind] THEN Some(cache[kind][id]) ELSE None]

\* the record of that kind and id is as the write found it
Untouched(dir, kind, id) ==
    RecordOf(files, context_cache, dir, kind, id)
        = RecordOf(op.files, op.cache, dir, kind, id)

\* C14: save_user_profile for one user id, save_session_context for one session
\* id and add_message_to_conversation for one session id leave the stored and
\* the cached profile, session and conversation of every other user id and
\* session id unchanged.
C14_OtherIdsUntouched ==
    op.name \in {"save_user_profile", "save_session_context",
                 "add_message_to_conversation"} =>
        /\ \A u \in Users :
              (op.kind # "profile" \/ u # op.id) => Untouched("profiles", "profile", u)
        /\ \A s \in Sessions :
              (op.kind # "session" \/ s # op.id) => Untouched("sessions", "session", s)
        /\ \A s \in Sessions :
              (op.kind # "conversation" \/ s # op.id)
                  => Untouched("conversations", "conversation", s)


---------------------------------------------------------------------------
(* ContextManager.update_user_preferences (SpecPrefs)                      *)

update_user_preferences(st, user_id, preferences) ==
    LET loaded == load_user_profile(st, user_id)
    IN  IF IsNone(loaded.ret)
        THEN [st |-> loaded.st, ret |-> FALSE]
        ELSE LET profile == SetAttrs(The(loaded.ret), preferences)
                 \* a loaded profile is the cached object: setattr and the
                 \* last_updated of save_user_profile change it in place
                 st1 == IF user_id \in DOMAIN loaded.st.cache.profile
                        THEN [loaded.st EXCEPT !.cache.profile[user_id] =
                                [profile EXCEPT !.last_updated = Datetime(st.now)]]
                        ELSE loaded.st
             IN  save_user_profile(st1, profile)

\* the preferences of test_preference_collection, preferences with a key that
\* is no field, and preferences with a last_updated
PreferenceUpdates ==
    { [skill_level |-> "advanced", dietary_restrictions |-> <<"vegan">>,
       cuisine_preferences |-> <<"japanese", "thai">>],
      [skill_level |-> "intermediate", favourite_colour |-> "red"],
      [health_goals |-> <<"muscle_gain">>, last_updated |-> Datetime(0)] }

UpdatePreferences ==
    \E u \in StoreUsers, preferences \in PreferenceUpdates :
        LET r == update_user_preferences(Store, u, preferences)
        IN  /\ SetStore(r.st)
            /\ ret' = r.ret
            /\ op' = [name |-> "update_user_preferences", user_id |-> u,
                      preferences |-> preferences,
                      before |-> load_user_profile(Store, u).ret]
            /\ UNCHANGED <<appended, saved_profile, peer_cache, requests, otp_store, db, anthropic_mcp_validator>>

NextPrefs ==
    \/ UpdatePreferences
    \/ SaveProfile
    \/ Restart
    \/ ToggleDisk
    \/ Tick

SpecPrefs == Init /\ [][NextPrefs]_vars

\* update_user_preferences returned True
PreferencesUpdated == op.name = "update_user_preferences" /\ ret = TRUE

\* C15 as stated: after a successful update, the loaded profile has the new
\* value in every field named in the preferences and the value of before in
\* every other field.
C15_AsStated ==
    PreferencesUpdated =>
        LET after == The(load_user_profile(Store, op.user_id).ret)
        IN  \A f \in UserProfileFields :
                after[f] = IF f \in DOMAIN op.preferences THEN op.preferences[f]
                           ELSE The(op.before)[f]

\* C15: after a successful update, the loaded profile has the new value in
\* every field named in the preferences and the value of before in every other
\* field, except last_updated, which is the time of the save whether it was
\* named or not; keys that are no fields are ignored.
C15_PartialUpdate ==
    PreferencesUpdated =>
        LET after == The(load_user_profile(Store, op.user_id).ret)
        IN  /\ DOMAIN after = UserProfileFields
            /\ \A f \in UserProfileFields :
                  after[f] = IF f = "last_updated" THEN Datetime(now)
                             ELSE IF f \in DOMAIN op.preferences THEN op.preferences[f]
                             ELSE The(op.before)[f]

\* the update of test_preference_collection on a saved profile, one tick after
\* the save: three fields are new, the dislikes are kept
C15_Witness ==
    /\ PreferencesUpdated
    /\ "skill_level" \in DOMAIN op.preferences
    /\ The(op.before).skill_level = "intermediate"
    /\ The(op.before).dietary_restrictions = <<"vegetarian">>
    /\ The(op.before).last_updated = Datetime(0)
    /\ now = 1
    /\ context_cache.profile[op.user_id].skill_level = "advanced"
    /\ context_cache.profile[op.user_id].dietary_restrictions = <<"vegan">>
    /\ context_cache.profile[op.user_id].cooking_equipment
         = The(op.before).cooking_equipment
    /\ files.profiles[op.user_id].skill_level = "advanced"


---------------------------------------------------------------------------
(* Concurrent requests on one store (SpecRace)                             *)
(* add_message_to_conversation takes no lock: the threads of two requests  *)
(* interleave between its load, its append and its save.  A request holds  *)
(* a reference to a conversation object; shared tells whether that object  *)
(* is the one the cache holds, so that a change of it is a change of the   *)
(* cached object and of every other reference to it.                       *)

RequestIds == {"r1", "r2"}

\* the requests at that position in add_message_to_conversation
RequestsAt(pc) == {r \in DOMAIN requests : requests[r].pc = pc}

\* the references to the cached conversation of a session get the new value
\* of the object
Shared(reqs, session_id, conversation) ==
    [r \in DOMAIN reqs |->
        IF reqs[r].session_id = session_id /\ reqs[r].pc # "load" /\ reqs[r].shared
        THEN [reqs[r] EXCEPT !.conversation = conversation]
        ELSE reqs[r]]

\* a request enters add_message_to_conversation with the message "n"
BeginAppend ==
    \E r \in RequestIds, s \in StoreSessions, u \in StoreUsers :
        /\ IF r \in DOMAIN requests THEN requests[r].pc = "done" ELSE TRUE
        /\ appended[s] < MaxRaceRequests
        /\ appended' = [appended EXCEPT ![s] = @ + 1]
        /\ requests' = Put(requests, r,
                           [pc |-> "load", session_id |-> s, user_id |-> u,
                            message |-> ToString(appended[s] + 1)])
        /\ op' = [name |-> "begin", request |-> r]
        /\ ret' = None
        /\ UNCHANGED <<files, mtime, context_cache, disk_ok, now, saved_profile,
                       peer_cache, otp_store, db, anthropic_mcp_validator>>

\* conversation = self.load_conversation_context(session_id), or a new
\* ConversationContext when there is none
LoadStep ==
    \E r \in RequestsAt("load") :
        LET req == requests[r]
            loaded == load_conversation_context(Store, req.session_id)
            conversation ==
                IF IsNone(loaded.ret)
                THEN NewConversationContext(req.session_id, req.user_id, now)
                ELSE The(loaded.ret)
        IN  /\ SetStore(loaded.st)
            /\ requests' = Put(requests, r,
                               [pc |-> "append", session_id |-> req.session_id,
                                user_id |-> req.user_id, message |-> req.message,
                                conversation |-> conversation,
                                shared |-> ~IsNone(loaded.ret)])
            /\ op' = [name |-> "load", request |-> r]
            /\ ret' = loaded.ret
            /\ UNCHANGED <<appended, saved_profile, peer_cache, otp_store, db, anthropic_mcp_validator>>

\* conversation.messages.append(message_entry) and the cut to 50 entries
AppendStep ==
    \E r \in RequestsAt("append") :
        LET req == requests[r]
            message_entry == [timestamp |-> IsoFormat(Datetime(now)),
                              user_message |-> req.message,
                              ai_response |-> "r" \o req.message,
                              context_type |-> "general"]
            mutated == [req.conversation EXCEPT
                          !.messages = AppendAndTrim(@, message_entry)]
            mine == Put(requests, r, [req EXCEPT !.pc = "save",
                                                 !.conversation = mutated])
        IN  /\ requests' = IF req.shared THEN Shared(mine, req.session_id, mutated)
                           ELSE mine
            /\ context_cache' =
                 IF req.shared
                 THEN [context_cache EXCEPT !.conversation[req.session_id] = mutated]
                 ELSE context_cache
            /\ op' = [name |-> "append", request |-> r]
            /\ ret' = None
            /\ UNCHANGED <<files, mtime, disk_ok, now, appended, saved_profile,
                           peer_cache, otp_store, db, anthropic_mcp_validator>>

\* return self.save_conversation_context(conversation)
SaveStep ==
    \E r \in RequestsAt("save") :
        LET req == requests[r]
            saved == save_conversation_context(Store, req.conversation)
            object == saved.st.cache.conversation[req.session_id]
            \* the other references are to the object the cache held before
            others == IF req.shared THEN Shared(requests, req.session_id, object)
                      ELSE [q \in DOMAIN requests |->
                              IF requests[q].session_id = req.session_id
                                 /\ requests[q].pc # "load"
                              THEN [requests[q] EXCEPT !.shared = FALSE]
                              ELSE requests[q]]
        IN  /\ SetStore(saved.st)
            /\ requests' = Put(others, r, [req EXCEPT !.pc = "done",
                                                      !.conversation = object,
                                                      !.shared = TRUE])
            /\ op' = [name |-> "save", request |-> r, session_id |-> req.session_id,
                      before |-> StoredLog(Store, req.session_id)]
            /\ ret' = saved.ret
            /\ UNCHANGED <<appended, saved_profile, peer_cache, otp_store, db, anthropic_mcp_validator>>

NextRace ==
    \/ BeginAppend
    \/ LoadStep
    \/ AppendStep
    \/ SaveStep

SpecRace == Init /\ [][NextRace]_vars

\* C19: the save of a request writes the log of the request's own conversation
\* object over the file, whatever another request stored there since this one
\* loaded: after it the stored log is exactly the log of that object.  Writes
\* to one record are last-writer-wins.
C19_LastWriterWins ==
    op.name = "save" =>
        StoredLog(Store, op.session_id)
            = Some(requests[op.request].conversation.messages)

\* two requests appended to a session without conversation, both loaded before
\* either saved, both returned True: the stored log holds one of the two
\* messages, the one of the last saver
C19_Witness ==
    /\ DOMAIN requests = RequestIds
    /\ \A r \in RequestIds : requests[r].pc = "done"
    /\ appended["s1"] = 2
    /\ op.name = "save"
    /\ ret = TRUE
    /\ Len(The(op.before)) = 1
    /\ Len(files.conversations["s1"].messages) = 1
    /\ files.conversations["s1"].messages[1].user_message = requests[op.request].message
    /\ The(op.before)[1].user_message # requests[op.request].message


---------------------------------------------------------------------------
(* Two ContextManager instances over one storage root (SpecPeers)          *)
(* The recipes blueprint and the chatbot blueprint each create their own   *)
(* instance: the files are shared, the caches are not.                     *)

\* the store as the second instance sees it
PeerStore == [Store EXCEPT !.cache = peer_cache]

SetPeerStore(st) ==
    /\ files' = st.files
    /\ mtime' = st.mtime
    /\ peer_cache' = st.cache
    /\ disk_ok' = st.disk_ok
    /\ now' = st.now
    /\ UNCHANGED context_cache

\* save_user_profile on the second instance
PeerSaveProfile ==
    \E u \in StoreUsers, args \in {ProfileA, ProfileB} :
        LET r == save_user_profile(PeerStore, NewUserProfile(u, args, now))
        IN  /\ SetPeerStore(r.st)
            /\ ret' = r.ret
            /\ op' = [name |-> "peer_save_user_profile", user_id |-> u]
            /\ UNCHANGED <<appended, saved_profile, requests, otp_store, db, anthropic_mcp_validator>>

\* the file of a profile, if there is one
StoredProfile(st, user_id) ==
    IF FileExists(st, FileKey("profiles", user_id))
    THEN Some(ReadFile(st, FileKey("profiles", user_id)))
    ELSE None

\* load_user_profile on the first instance, with the cache entry, the file
\* and the time of its last write as the load found them
LoadProfileOfPeers ==
    \E u \in StoreUsers :
        LET r == load_user_profile(Store, u)
        IN  /\ SetStore(r.st)
            /\ ret' = r.ret
            /\ op' = [name |-> "load", user_id |-> u,
                      cached |-> IF u \in DOMAIN context_cache.profile
                                 THEN Some(context_cache.profile[u]) ELSE None,
                      file |-> StoredProfile(Store, u),
                      written |-> IF u \in DOMAIN mtime.profiles
                                  THEN mtime.profiles[u] ELSE 0]
            /\ UNCHANGED <<appended, saved_profile, peer_cache, requests, otp_store, db, anthropic_mcp_validator>>

NextPeers ==
    \/ LoadProfileOfPeers
    \/ SaveProfile
    \/ PeerSaveProfile
    \/ Tick

SpecPeers == Init /\ [][NextPeers]_vars

\* C20: a load returns the record of the instance's own cache whenever there
\* is one, whatever the file holds and whoever wrote it since, and leaves cache
\* and file as they are; the file is read only when the cache has no record,
\* and the record read is then cached.
C20_CacheBeforeFile ==
    op.name = "load" =>
        /\ ~IsNone(op.cached) =>
              /\ ret = op.cached
              /\ context_cache.profile[op.user_id] = The(op.cached)
              /\ StoredProfile(Store, op.user_id) = op.file
        /\ (IsNone(op.cached) /\ ~IsNone(op.file)) =>
              /\ ret = Some(ProfileFromJson(The(op.file), now))
              /\ context_cache.profile[op.user_id] = The(ret)

\* the first instance cached an intermediate cook at time 0, the second
\* instance saved an advanced cook at time 1: the load of the first instance
\* still returns the intermediate cook
C20_Witness ==
    /\ op.name = "load"
    /\ ~IsNone(op.cached)
    /\ The(op.cached).last_updated = Datetime(0)
    /\ op.written = 1
    /\ The(op.file).skill_level = "advanced"
    /\ The(ret).skill_level = "intermediate"
    /\ peer_cache.profile[op.user_id].skill_level = "advanced"


---------------------------------------------------------------------------
(* The classifier and whole words (SpecClassify)                           *)

\* query_lower.split(): the words of the lowered query
QueryTokens21(query) == Split(Lower(Chars(query)))

\* some word of the query is a keyword of the list
HasKeywordToken(keywords, query) ==
    \E t \in 1..Len(QueryTokens21(query)), k \in 1..Len(keywords) :
        QueryTokens21(query)[t] = keywords[k]

\* C21: the classifier tests whole words of the query: a query is a recipe
\* query only when one of its words is a recipe keyword, so a keyword that
\* occurs only inside a longer word ("meal" in "oatmeal") selects nothing.
C21_WholeTokensOnly ==
    (op.name = "determine_prompt_type" /\ ret = "recipe_generation")
        => HasKeywordToken(recipe_keywords, op.query)


---------------------------------------------------------------------------
(* ContextOptimizer._filter_relevant_messages (SpecFilter)                 *)
(* A text is a sequence of fragments; a message is [user_message,          *)
(* ai_response].                                                           *)

max_conversation_messages == 10

\* the characters \w does not match
NonWordChars == {" ", "?", "\n"}

\* set(re.findall(r'\b\w+\b', text)): the maximal runs of word characters
ReWords(text) ==
    LET starts == {i \in 1..Len(text) :
                    text[i] \notin NonWordChars
                    /\ (i = 1 \/ text[i - 1] \in NonWordChars)}
        EndOf(i) == CHOOSE j \in i..Len(text) :
                        /\ \A k \in i..j : text[k] \notin NonWordChars
                        /\ (j = Len(text) \/ text[j + 1] \in NonWordChars)
    IN  {SubSeq(text, i, EndOf(i)) : i \in starts}

\* f"{msg.get('user_message', '')} {msg.get('ai_response', '')}".lower()
MessageText(msg) == Lower(Chars(msg.user_message) \o <<" ">> \o Chars(msg.ai_response))

\* Mutant: a score equal to the threshold passes
IsRelevantAtThreshold(common, total) == 10 * common >= 3 * total

\* relevance_score > self.relevance_threshold, where relevance_score is
\* common / total and the threshold is 0.3
IsRelevant(common, total) == 10 * common > 3 * total

\* len(common_words) of a message
CommonWords(msg, words) == Cardinality(words \cap ReWords(MessageText(msg)))

RECURSIVE CommonCounts(_, _)
\* len(common_words) of every message, in the order of the loop
CommonCounts(messages, words) ==
    IF Len(messages) = 0 THEN <<>>
    ELSE <<CommonWords(messages[1], words)>> \o CommonCounts(Tail(messages), words)

\* the positions of the returned messages: the scored positions in the order of
\* the stable descending sort, cut to max_conversation_messages
FilteredPositions(messages, query) ==
    LET query_word_set == ReWords(Lower(Chars(query)))
        total == IF Cardinality(query_word_set) > 1 THEN Cardinality(query_word_set) ELSE 1
        common == CommonCounts(messages, query_word_set)
        scored == {i \in 1..Len(messages) : IsRelevant(common[i], total)}
        \* the messages sorted before position i: a higher score, or the same
        \* score and an earlier position
        Before(i) == {j \in scored : common[j] > common[i]
                                     \/ (common[j] = common[i] /\ j < i)}
        sorted == [k \in 1..Cardinality(scored) |->
                      CHOOSE i \in scored : Cardinality(Before(i)) = k - 1]
    IN  IF Len(messages) = 0 THEN <<>>
        ELSE SubSeq(sorted, 1, IF Len(sorted) < max_conversation_messages
                               THEN Len(sorted) ELSE max_conversation_messages)

_filter_relevant_messages(messages, query) ==
    LET Pick(positions) == [k \in 1..Len(positions) |-> messages[positions[k]]]
    IN  Pick(FilteredPositions(messages, query))

FilterMessages ==
    { [user_message |-> <<"Cook", " ", "eggs">>,
       ai_response |-> <<"make", " ", "oat", " ", "meal", " ", "how", " ", "to">>],
      [user_message |-> <<"how", " ", "to", " ", "fix">>, ai_response |-> <<"explain">>],
      [user_message |-> <<"how", " ", "to">>, ai_response |-> <<"fix">>],
      [user_message |-> <<"WHAT IS">>, ai_response |-> <<"eggs", "?">>] }

\* a query of three words, one of ten words, one with a question mark, one
\* without words and the empty query
FilterQueries ==
    { <<"Cook", " ", "eggs", " ", "meal">>,
      <<"make", " ", "oat", " ", "meal", " ", "fix", " ", "substitute", " ", "instead",
        " ", "of", " ", "explain", " ", "how", " ", "to">>,
      <<"eggs", "?">>,
      <<"?", " ">>,
      <<>> }

FilterMessageLists ==
    { base \o [i \in 1..n |-> tail] :
        base \in UNION {[1..b -> FilterMessages] : b \in 0..MaxFilterBase},
        tail \in FilterMessages, n \in {0, MaxFilterTail} }

InitFilter ==
    /\ files = [profiles |-> EmptyMap, conversations |-> EmptyMap, sessions |-> EmptyMap]
    /\ mtime = [profiles |-> EmptyMap, conversations |-> EmptyMap, sessions |-> EmptyMap]
    /\ context_cache = [profile |-> EmptyMap, conversation |-> EmptyMap, session |-> EmptyMap]
    /\ disk_ok = TRUE
    /\ now = 0
    /\ appended = [s \in Sessions |-> 0]
    /\ saved_profile = EmptyMap
    /\ peer_cache = [profile |-> EmptyMap, conversation |-> EmptyMap, session |-> EmptyMap]
    /\ requests = EmptyMap
    /\ otp_store = EmptyMap
    /\ db = EmptyDb
    /\ anthropic_mcp_validator = AnthropicMCPValidator
    /\ ret = None
    /\ \E messages \in FilterMessageLists, query \in FilterQueries :
           op = [name |-> "input", messages |-> messages, query |-> query]

FilterRelevantMessages ==
    /\ op.name = "input"
    /\ op' = [name |-> "_filter_relevant_messages", messages |-> op.messages,
              query |-> op.query,
              positions |-> FilteredPositions(op.messages, op.query)]
    /\ ret' = _filter_relevant_messages(op.messages, op.query)
    /\ UNCHANGED <<files, mtime, context_cache, disk_ok, now, appended, saved_profile, peer_cache, requests, otp_store, db, anthropic_mcp_validator>>

NextFilter == FilterRelevantMessages

SpecFilter == InitFilter /\ [][NextFilter]_vars

\* the distinct words of the lowered query
DistinctQueryWords(query) == ReWords(Lower(Chars(query)))

\* the number of distinct query words present in the user text or the AI text
Overlap(msg, query) ==
    Cardinality({w \in DistinctQueryWords(query) :
                    \/ w \in ReWords(Lower(Chars(msg.user_message)))
                    \/ w \in ReWords(Lower(Chars(msg.ai_response)))})

RECURSIVE Overlaps(_, _)
\* the overlap of every message of a list
Overlaps(messages, query) ==
    IF Len(messages) = 0 THEN <<>>
    ELSE <<Overlap(messages[1], query)>> \o Overlaps(Tail(messages), query)

\* the positions whose overlap ratio is strictly above 0.3 (three tenths),
\* given the overlaps of the messages
AboveThreshold(overlaps, query) ==
    {i \in 1..Len(overlaps) :
        10 * overlaps[i] > 3 * Cardinality(DistinctQueryWords(query))}

\* C22: _filter_relevant_messages returns messages whose overlap ratio is
\* strictly above 0.3, all of them when there are at most 10 and otherwise 10
\* with the highest ratios, ordered by non-increasing ratio; an empty message
\* list or a query without words gives the empty list.
C22_FilterRelevantMessages ==
    op.name = "_filter_relevant_messages"
        => LET overlaps == Overlaps(op.messages, op.query)
               above == AboveThreshold(overlaps, op.query)
               pos == op.positions
               Ratio(i) == overlaps[i]
           IN  /\ ret = [k \in 1..Len(pos) |-> op.messages[pos[k]]]
               /\ \A k \in 1..Len(pos) : pos[k] \in above
               /\ \A k, l \in 1..Len(pos) : k # l => pos[k] # pos[l]
               /\ Len(pos) = IF Cardinality(above) < 10 THEN Cardinality(above) ELSE 10
               /\ \A k \in 1..(Len(pos) - 1) : Ratio(pos[k]) >= Ratio(pos[k + 1])
               /\ \A i \in above :
                      (\A k \in 1..Len(pos) : pos[k] # i)
                          => \A k \in 1..Len(pos) : Ratio(pos[k]) >= Ratio(i)
               /\ (Len(op.messages) = 0 \/ DistinctQueryWords(op.query) = {})
                      => ret = <<>>

\* more than ten messages pass, of different ratios, one message is at the
\* threshold exactly and left out, and the ten returned are in order
C22_Witness ==
    /\ op.name = "_filter_relevant_messages"
    /\ Cardinality(AboveThreshold(Overlaps(op.messages, op.query), op.query)) > 10
    /\ Len(ret) = 10
    /\ Overlap(ret[1], op.query) > Overlap(ret[10], op.query)
    /\ \E i \in 1..Len(op.messages) :
           /\ 10 * Overlap(op.messages[i], op.query)
                  = 3 * Cardinality(DistinctQueryWords(op.query))
           /\ Overlap(op.messages[i], op.query) > 0


---------------------------------------------------------------------------
(* The sentence cut of _truncate_to_token_limit (SpecTrunc)                *)

\* int(available_tokens / 0.75) of a call
TargetWords(base_count, query_count) ==
    (4 * max_context_tokens - Tokens4(base_count) - Tokens4(query_count)
        - 4 * TokenBuffer) \div 3

\* the call reaches the truncation: something is available and the context
\* has more words than the target
Truncates(context, base_count, query_count) ==
    /\ 4 * max_context_tokens - Tokens4(base_count) - Tokens4(query_count)
          - 4 * TokenBuffer > 0
    /\ Len(Split(context)) > TargetWords(base_count, query_count)

\* the first target words of the context, joined by blanks
WordTruncated(context, base_count, query_count) ==
    JoinWords(SubSeq(Split(context), 1, TargetWords(base_count, query_count)))

\* the text up to and including the last '.', '!' or '?'; empty without one
UpToSentenceEnd(text) ==
    SubSeq(text, 1, Max3(RFind(text, "."), RFind(text, "!"), RFind(text, "?")) + 1)

\* C23: when the context is truncated, the result is the word-truncated text
\* cut at its last sentence end exactly when the text up to that sentence end
\* has at least 70% of the target number of words; otherwise it is the
\* word-truncated text followed by an ellipsis.
C23_CutKeepsSeventyPercent ==
    (op.name = "_truncate_to_token_limit"
        /\ Truncates(op.context, op.base_words, op.query_words))
        => LET text == WordTruncated(op.context, op.base_words, op.query_words)
               kept == UpToSentenceEnd(text)
           IN  IF /\ Len(kept) > 0
                  /\ 10 * Len(Split(kept))
                        >= 7 * TargetWords(op.base_words, op.query_words)
               THEN ret = kept
               ELSE ret = text \o <<".", ".", ".">>


---------------------------------------------------------------------------
(* EnhancedRAGService._parse_recipe_response (SpecParse)                   *)
(* A response is a sequence of tokens: the punctuation of JSON, strings,   *)
(* the number 1, null, and "text" for prose.  A JSON value is [str],       *)
(* [num], [null], [list] or [dict], a dict being a function on its keys.   *)

JsonStrings == {"title", "ingredients", "extra", "Soup", "eggs"}

JsonStr(s) == [str |-> s]

JsonList(items) == [list |-> items]

JsonDict(map) == [dict |-> map]

JsonNull == [null |-> TRUE]

ParseError == [ok |-> FALSE, value |-> JsonNull, next |-> 0]

Parsed(value, next) == [ok |-> TRUE, value |-> value, next |-> next]

TokenAt(tokens, i) == IF i \in 1..Len(tokens) THEN tokens[i] ELSE "end"

RECURSIVE ParseValue(_, _)
RECURSIVE ParseItems(_, _, _)
RECURSIVE ParseMembers(_, _, _)

\* json decoding of the value that starts at token i: [ok, value, next]
ParseValue(tokens, i) ==
    LET t == TokenAt(tokens, i)
    IN  IF t \in JsonStrings THEN Parsed(JsonStr(t), i + 1)
        ELSE IF t = "1" THEN Parsed([num |-> 1], i + 1)
        ELSE IF t = "null" THEN Parsed(JsonNull, i + 1)
        ELSE IF t = "[" THEN (IF TokenAt(tokens, i + 1) = "]"
                              THEN Parsed(JsonList(<<>>), i + 2)
                              ELSE ParseItems(tokens, i + 1, <<>>))
        ELSE IF t = "{" THEN (IF TokenAt(tokens, i + 1) = "}"
                              THEN Parsed(JsonDict(EmptyMap), i + 2)
                              ELSE ParseMembers(tokens, i + 1, EmptyMap))
        ELSE ParseError

\* the items of an array after its opening bracket or a comma
ParseItems(tokens, i, items) ==
    LET After(v) ==
            IF ~v.ok THEN ParseError
            ELSE IF TokenAt(tokens, v.next) = ","
                 THEN ParseItems(tokens, v.next + 1, Append(items, v.value))
            ELSE IF TokenAt(tokens, v.next) = "]"
                 THEN Parsed(JsonList(Append(items, v.value)), v.next + 1)
            ELSE ParseError
    IN  After(ParseValue(tokens, i))

\* the members of an object after its opening brace or a comma
ParseMembers(tokens, i, map) ==
    LET After(v) ==
            IF ~v.ok THEN ParseError
            ELSE IF TokenAt(tokens, v.next) = ","
                 THEN ParseMembers(tokens, v.next + 1, Put(map, tokens[i], v.value))
            ELSE IF TokenAt(tokens, v.next) = "}"
                 THEN Parsed(JsonDict(Put(map, tokens[i], v.value)), v.next + 1)
            ELSE ParseError
    IN  IF TokenAt(tokens, i) \in JsonStrings /\ TokenAt(tokens, i + 1) = ":"
        THEN After(ParseValue(tokens, i + 2))
        ELSE ParseError

\* json.loads(json_str): the whole text is one value, or the call raises
JsonLoads(tokens) ==
    LET Whole(v) == IF v.ok /\ v.next = Len(tokens) + 1 THEN v ELSE ParseError
    IN  Whole(ParseValue(tokens, 1))

\* Mutant: the match ends at the first closing bracket
JsonMatchFirstClose(response) ==
    LET opens == {i \in 1..Len(response) : response[i] = "["}
        first == CHOOSE i \in opens : \A j \in opens : i <= j
        closes == {i \in 1..Len(response) : response[i] = "]" /\ i > first}
    IN  IF opens = {} \/ closes = {} THEN None
        ELSE Some(SubSeq(response, first, CHOOSE i \in closes : \A j \in closes : i <= j))

\* re.search(r'\[.*\]', response, re.DOTALL): from the first opening bracket
\* to the last closing bracket after it
JsonMatch(response) ==
    LET opens == {i \in 1..Len(response) : response[i] = "["}
        first == CHOOSE i \in opens : \A j \in opens : i <= j
        closes == {i \in 1..Len(response) : response[i] = "]" /\ i > first}
    IN  IF opens = {} \/ closes = {} THEN None
        ELSE Some(SubSeq(response, first, CHOOSE i \in closes : \A j \in closes : i >= j))

\* recipe.get(key, default)
DictGet(map, key, default) == IF key \in DOMAIN map THEN map[key] ELSE default

CleanedRecipe(recipe) ==
    [title |-> DictGet(recipe, "title", JsonStr("")),
     ingredients |-> DictGet(recipe, "ingredients", JsonList(<<>>)),
     instructions |-> DictGet(recipe, "instructions", JsonList(<<>>)),
     estimated_cooking_time |-> DictGet(recipe, "estimated_cooking_time", JsonStr("")),
     nutritional_info |-> DictGet(recipe, "nutritional_info", JsonStr("")),
     time_breakdown |-> DictGet(recipe, "time_breakdown", JsonDict(EmptyMap)),
     image_url |-> DictGet(recipe, "image_url", JsonStr(""))]

RECURSIVE CleanedRecipes(_)
\* the loop over the decoded array
CleanedRecipes(recipes) ==
    IF Len(recipes) = 0 THEN <<>>
    ELSE (IF "dict" \in DOMAIN recipes[1] /\ "title" \in DOMAIN recipes[1].dict
          THEN <<CleanedRecipe(recipes[1].dict)>>
          ELSE <<>>)
         \o CleanedRecipes(Tail(recipes))

\* every exception of the body is caught and gives the empty list
_parse_recipe_response(response) ==
    LET Decode(json_match) ==
            LET Clean(recipes) ==
                    IF recipes.ok THEN CleanedRecipes(recipes.value.list) ELSE <<>>
            IN  IF IsNone(json_match) THEN <<>> ELSE Clean(JsonLoads(The(json_match)))
    IN  Decode(JsonMatch(response))

\* the elements a tested array is made of: the tokens, and what the element
\* is: titled elements carry the record expected for them
RecipeElements ==
    { [tokens |-> <<"{", "title", ":", "Soup", ",", "ingredients", ":",
                    "[", "eggs", "]", "}">>,
       valid |-> TRUE,
       cleaned |-> Some([title |-> JsonStr("Soup"),
                         ingredients |-> JsonList(<<JsonStr("eggs")>>),
                         instructions |-> JsonList(<<>>),
                         estimated_cooking_time |-> JsonStr(""),
                         nutritional_info |-> JsonStr(""),
                         time_breakdown |-> JsonDict(EmptyMap),
                         image_url |-> JsonStr("")])],
      [tokens |-> <<"{", "title", ":", "null", ",", "extra", ":", "1", "}">>,
       valid |-> TRUE,
       cleaned |-> Some([title |-> JsonNull,
                         ingredients |-> JsonList(<<>>),
                         instructions |-> JsonList(<<>>),
                         estimated_cooking_time |-> JsonStr(""),
                         nutritional_info |-> JsonStr(""),
                         time_breakdown |-> JsonDict(EmptyMap),
                         image_url |-> JsonStr("")])],
      [tokens |-> <<"{", "ingredients", ":", "[", "eggs", "]", "}">>,
       valid |-> TRUE, cleaned |-> None],
      [tokens |-> <<"Soup">>, valid |-> TRUE, cleaned |-> None],
      [tokens |-> <<"[", "{", "title", ":", "Soup", "}", "]">>,
       valid |-> TRUE, cleaned |-> None],
      [tokens |-> <<"{", "title", "Soup", "}">>, valid |-> FALSE, cleaned |-> None] }

\* prose, nothing, or prose with a bracketed number before the array
ResponsePrefixes == { <<>>, <<"text">>, <<"[", "1", "]", "text">> }

\* nothing, prose, or prose that ends in a closing bracket after the array
ResponseSuffixes == { <<>>, <<"text">>, <<"text", "]">> }

RECURSIVE ElementTokens(_)
\* the tokens of the elements, separated by commas
ElementTokens(elements) ==
    IF Len(elements) = 0 THEN <<>>
    ELSE IF Len(elements) = 1 THEN elements[1].tokens
    ELSE elements[1].tokens \o <<",">> \o ElementTokens(Tail(elements))

\* the array of a response is complete, lacks its closing bracket, or is absent
ArrayShapes == {"closed", "open", "absent"}

\* the response made of a prefix, an array of elements and a suffix
ResponseOf(prefix, elements, shape, suffix) ==
    prefix
    \o (IF shape = "absent" THEN <<>>
        ELSE <<"[">> \o ElementTokens(elements)
                    \o (IF shape = "closed" THEN <<"]">> ELSE <<>>))
    \o suffix

InitParse ==
    /\ files = [profiles |-> EmptyMap, conversations |-> EmptyMap, sessions |-> EmptyMap]
    /\ mtime = [profiles |-> EmptyMap, conversations |-> EmptyMap, sessions |-> EmptyMap]
    /\ context_cache = [profile |-> EmptyMap, conversation |-> EmptyMap, session |-> EmptyMap]
    /\ disk_ok = TRUE
    /\ now = 0
    /\ appended = [s \in Sessions |-> 0]
    /\ saved_profile = EmptyMap
    /\ peer_cache = [profile |-> EmptyMap, conversation |-> EmptyMap, session |-> EmptyMap]
    /\ requests = EmptyMap
    /\ otp_store = EmptyMap
    /\ db = EmptyDb
    /\ anthropic_mcp_validator = AnthropicMCPValidator
    /\ ret = None
    /\ \E prefix \in ResponsePrefixes, suffix \in ResponseSuffixes, shape \in ArrayShapes,
          elements \in UNION {[1..n -> RecipeElements] : n \in 0..MaxRecipeElems} :
           op = [name |-> "input", prefix |-> prefix, elements |-> elements,
                 shape |-> shape, suffix |-> suffix,
                 response |-> ResponseOf(prefix, elements, shape, suffix)]

ParseRecipeResponse ==
    /\ op.name = "input"
    /\ op' = [op EXCEPT !.name = "_parse_recipe_response"]
    /\ ret' = _parse_recipe_response(op.response)
    /\ UNCHANGED <<files, mtime, context_cache, disk_ok, now, appended, saved_profile, peer_cache, requests, otp_store, db, anthropic_mcp_validator>>

NextParse == ParseRecipeResponse

SpecParse == InitParse /\ [][NextParse]_vars

RecipeKeys ==
    {"title", "ingredients", "instructions", "estimated_cooking_time",
     "nutritional_info", "time_breakdown", "image_url"}

\* the text between the first opening and the last closing bracket of the
\* response is the array of the elements, and every element is valid JSON
ArrayIsFound(o) ==
    /\ o.shape = "closed"
    /\ ~Contains(o.prefix, "[")
    /\ ~Contains(o.suffix, "]")
    /\ \A k \in 1..Len(o.elements) : o.elements[k].valid

RECURSIVE ExpectedRecipes(_)
\* the records expected for the elements that are objects with a title
ExpectedRecipes(elements) ==
    IF Len(elements) = 0 THEN <<>>
    ELSE elements[1].cleaned \o ExpectedRecipes(Tail(elements))

\* C24: _parse_recipe_response searches the response from its first opening
\* bracket to its last closing bracket.  When that text is a JSON array, the
\* result holds, in order, one record per element that is an object with a
\* title, each with exactly the seven fixed keys, the values taken from the
\* element or the defaults; other elements are dropped.  When there is no
\* such text or it is not valid JSON the result is the empty list.
C24_ParseRecipeResponse ==
    op.name = "_parse_recipe_response"
        => /\ \A k \in 1..Len(ret) : DOMAIN ret[k] = RecipeKeys
           /\ ArrayIsFound(op) => ret = ExpectedRecipes(op.elements)
           /\ ~ArrayIsFound(op) => ret = <<>>

\* an array of a titled object and an untitled one between prose gives the one
\* record, with the nested list of ingredients
C24_Witness ==
    /\ op.name = "_parse_recipe_response"
    /\ ArrayIsFound(op)
    /\ op.prefix = <<"text">>
    /\ Len(op.elements) = 2
    /\ Len(ret) = 1
    /\ ret[1].title = JsonStr("Soup")
    /\ ret[1].ingredients = JsonList(<<JsonStr("eggs")>>)


---------------------------------------------------------------------------
(* The password reset routes of auth.py (SpecAuth)                         *)
(* The clock counts minutes.  A reply is [status, message].  op.issued is  *)
(* history: per email the OTP reset_password stored last and the minute it *)
(* did so, until a reset consumes it; op.had is op.issued as the request   *)
(* found it and op.at the minute of the request.                           *)

\* "This code expires in 10 minutes."
OtpLifetime == 10

\* str(random.randint(100000, 999999))
OtpValues == {"100000", "999999"}

\* the registered emails and one that is not registered
Emails == Users \cup {"nobody"}

\* otp_store.get(email)
StoredOtp(store, email) == IF email \in DOMAIN store THEN Some(store[email]) ELSE None

\* User.query.filter_by(email=email).first() finds a user
UserExists(database, email) == email \in DOMAIN database.password

\* a state of the routes is [otp_store, db]; sent tells whether send_email
\* returns
reset_password(st, email, otp, sent) ==
    IF ~UserExists(st.db, email)
    THEN [st |-> st, ret |-> [status |-> 404, message |-> "Email not found"]]
    ELSE [st |-> [st EXCEPT !.otp_store = Put(st.otp_store, email, otp)],
          ret |-> IF sent THEN [status |-> 200, message |-> "OTP sent to your email"]
                  ELSE [status |-> 500, message |-> "Failed to send OTP"]]

\* otp is data.get("otp"): None when the field is missing
verify_otp(st, email, otp) ==
    [st |-> st,
     ret |-> IF StoredOtp(st.otp_store, email) = otp
             THEN [status |-> 200, message |-> "OTP verified"]
             ELSE [status |-> 400, message |-> "Invalid or expired OTP"]]

\* generate_password_hash raises on a missing password, which the route does
\* not catch
set_new_password(st, email, otp, new_password) ==
    IF StoredOtp(st.otp_store, email) # otp
    THEN [st |-> st, ret |-> [status |-> 400, message |-> "Invalid or expired OTP"]]
    ELSE IF ~UserExists(st.db, email)
    THEN [st |-> st, ret |-> [status |-> 404, message |-> "User not found"]]
    ELSE IF IsNone(new_password)
    THEN [st |-> st, ret |-> [status |-> 500, message |-> "Internal Server Error"]]
    ELSE [st |-> [otp_store |-> [e \in DOMAIN st.otp_store \ {email} |-> st.otp_store[e]],
                  db |-> [st.db EXCEPT !.password[email] =
                                           PasswordHash(The(new_password))]],
          ret |-> [status |-> 200, message |-> "Password reset successful"]]

AuthState == [otp_store |-> otp_store, db |-> db]

SetAuthState(st) ==
    /\ otp_store' = st.otp_store
    /\ db' = st.db

\* the otp field of a request: missing, or one of the values
RequestOtps == {None} \cup {Some(o) : o \in OtpValues}

\* the new_password field of a request
NewPasswords == {None, Some("pw1")}

\* the minutes at which requests arrive
AuthClock == {0, 9, 10, 11}

InitAuth ==
    /\ files = [profiles |-> EmptyMap, conversations |-> EmptyMap, sessions |-> EmptyMap]
    /\ mtime = [profiles |-> EmptyMap, conversations |-> EmptyMap, sessions |-> EmptyMap]
    /\ context_cache = [profile |-> EmptyMap, conversation |-> EmptyMap, session |-> EmptyMap]
    /\ disk_ok = TRUE
    /\ now = 0
    /\ appended = [s \in Sessions |-> 0]
    /\ saved_profile = EmptyMap
    /\ peer_cache = [profile |-> EmptyMap, conversation |-> EmptyMap, session |-> EmptyMap]
    /\ requests = EmptyMap
    /\ otp_store = EmptyMap
    /\ db = EmptyDb
    /\ anthropic_mcp_validator = AnthropicMCPValidator
    /\ op = [name |-> "init", issued |-> EmptyMap, count |-> 0]
    /\ ret = None

AuthUnchanged ==
    UNCHANGED <<files, mtime, context_cache, disk_ok, appended, saved_profile,
                peer_cache, requests, anthropic_mcp_validator>>

ResetPassword ==
    \E email \in Emails, otp \in OtpValues, sent \in BOOLEAN :
        /\ op.count < MaxAuthRequests
        /\ \E r \in {reset_password(AuthState, email, otp, sent)} :
               /\ SetAuthState(r.st)
               /\ ret' = r.ret
               /\ op' = [name |-> "reset_password", email |-> email,
                         count |-> op.count + 1,
                         issued |-> IF r.ret.status # 404
                                    THEN Put(op.issued, email, [otp |-> otp, at |-> now])
                                    ELSE op.issued]
        /\ UNCHANGED now
        /\ AuthUnchanged

VerifyOtp ==
    \E email \in Emails, otp \in RequestOtps :
        /\ op.count < MaxAuthRequests
        /\ \E r \in {verify_otp(AuthState, email, otp)} :
               /\ SetAuthState(r.st)
               /\ ret' = r.ret
               /\ op' = [name |-> "verify_otp", email |-> email, otp |-> otp,
                         at |-> now, count |-> op.count + 1,
                         had |-> op.issued, issued |-> op.issued]
        /\ UNCHANGED now
        /\ AuthUnchanged

SetNewPassword ==
    \E email \in Emails, otp \in RequestOtps, new_password \in NewPasswords :
        /\ op.count < MaxAuthRequests
        /\ \E r \in {set_new_password(AuthState, email, otp, new_password)} :
               /\ SetAuthState(r.st)
               /\ ret' = r.ret
               /\ op' = [name |-> "set_new_password", email |-> email, otp |-> otp,
                         new_password |-> new_password,
                         at |-> now, count |-> op.count + 1,
                         had |-> op.issued,
                         before |-> db.password,
                         issued |-> IF r.ret.status = 200
                                    THEN [e \in DOMAIN op.issued \ {email} |-> op.issued[e]]
                                    ELSE op.issued]
        /\ UNCHANGED now
        /\ AuthUnchanged

\* minutes pass between two requests
AdvanceMinutes ==
    \E t \in AuthClock :
        /\ t > now
        /\ now' = t
        /\ UNCHANGED <<otp_store, db, op, ret>>
        /\ AuthUnchanged

NextAuth ==
    \/ ResetPassword
    \/ VerifyOtp
    \/ SetNewPassword
    \/ AdvanceMinutes

SpecAuth == InitAuth /\ [][NextAuth]_vars

\* the request names the OTP that reset_password issued for the email and that
\* no reset has consumed
NamesIssuedOtp(issued, email, otp) ==
    /\ email \in DOMAIN issued
    /\ otp = Some(issued[email].otp)

\* C25: an OTP expires 10 minutes after reset_password issued it: from then
\* on verify_otp and set_new_password answer a request that names it with 400
\* "Invalid or expired OTP".
C25_OtpExpires ==
    (/\ op.name \in {"verify_otp", "set_new_password"}
     /\ NamesIssuedOtp(op.had, op.email, op.otp)
     /\ op.at >= op.had[op.email].at + OtpLifetime)
        => ret = [status |-> 400, message |-> "Invalid or expired OTP"]


\* C27: set_new_password changes the password only when the request names
\* the OTP that reset_password issued for the email and no reset has
\* consumed; in every other case the password is unchanged and the reply is
\* 400.
C27_PasswordNeedsIssuedOtp ==
    (op.name = "set_new_password" /\ ~NamesIssuedOtp(op.had, op.email, op.otp))
        => /\ db.password = op.before
           /\ ret.status = 400


---------------------------------------------------------------------------
(* A failed update_user_preferences (SpecPrefs)                            *)

\* C28: when update_user_preferences returns False because the save failed,
\* a following load_user_profile of that user on the same store returns, in
\* every field the preferences name, the value the profile had before the
\* update.
C28_FailedUpdateKeepsProfile ==
    (op.name = "update_user_preferences" /\ ret = FALSE /\ ~IsNone(op.before))
        => LET after == load_user_profile(Store, op.user_id).ret
           IN  ~IsNone(after)
                   => \A f \in (DOMAIN op.preferences \cap UserProfileFields)
                                  \ {"last_updated"} :
                          The(after)[f] = The(op.before)[f]


---------------------------------------------------------------------------
(* update_user_preferences and the profiles of other users (SpecOwner)     *)

\* preferences of the update-preferences route: a skill level, alone and
\* together with a user_id
OwnerPreferences ==
    { [skill_level |-> "advanced"],
      [user_id |-> "u2", skill_level |-> "advanced"] }

UpdatePreferencesOfUser ==
    \E u \in Users, preferences \in OwnerPreferences :
        WriteStep("update_user_preferences", "profile", u,
                  update_user_preferences(Store, u, preferences))

NextOwner ==
    \/ UpdatePreferencesOfUser
    \/ SaveProfileOfUser
    \/ Restart
    \/ Tick

SpecOwner == Init /\ [][NextOwner]_vars

\* C26: update_user_preferences(u, prefs) changes neither the stored file nor
\* the cached record of any profile other than u's, and the record cached
\* for u keeps user_id = u, whatever fields the preferences name.
C26_UpdateKeepsOwner ==
    op.name = "update_user_preferences"
        => /\ \A v \in Users \ {op.id} : Untouched("profiles", "profile", v)
           /\ op.id \in DOMAIN context_cache.profile
                  => context_cache.profile[op.id].user_id = op.id


---------------------------------------------------------------------------
(* The favorites routes of recipes.py (SpecFavorites)                      *)
(* A row of favorite_recipe is [id, user_id, title].  Each request runs in *)
(* its own database session; an add_to_favorites request is a query and,   *)
(* when the query finds nothing, an insert with its commit.  requests      *)
(* holds the add requests by number: [user_id, title, pc].                 *)

FavoriteTitles == {"Soup", "Stew"}

FavoriteRequestIds == 1..MaxFavoriteRequests

\* FavoriteRecipe.query.filter_by(user_id=..., title=...).first() finds a row
HasFavorite(rows, user_id, title) ==
    \E k \in 1..Len(rows) : rows[k].user_id = user_id /\ rows[k].title = title

\* the primary key the database gives a new row
NextRowId(rows) ==
    IF Len(rows) = 0 THEN 1
    ELSE 1 + (CHOOSE n \in {rows[k].id : k \in 1..Len(rows)} :
                 \A k \in 1..Len(rows) : rows[k].id <= n)

FavoritesUnchanged ==
    UNCHANGED <<files, mtime, context_cache, disk_ok, now, appended, saved_profile,
                peer_cache, otp_store, anthropic_mcp_validator>>

\* a request enters add_to_favorites
BeginAddToFavorites ==
    \E r \in FavoriteRequestIds, u \in Users, title \in FavoriteTitles :
        /\ r \notin DOMAIN requests
        /\ \A q \in FavoriteRequestIds : q < r => q \in DOMAIN requests
        /\ requests' = Put(requests, r, [user_id |-> u, title |-> title, pc |-> "query"])
        /\ op' = [name |-> "begin", request |-> r]
        /\ UNCHANGED <<db, ret>>
        /\ FavoritesUnchanged

\* the query for an existing favorite, and the 409 when there is one
QueryFavorite ==
    \E r \in DOMAIN requests :
        /\ requests[r].pc = "query"
        /\ IF HasFavorite(db.favorite_recipes, requests[r].user_id, requests[r].title)
           THEN /\ requests' = [requests EXCEPT ![r].pc = "done"]
                /\ ret' = [status |-> 409, message |-> "Recipe already in favorites"]
                /\ op' = [name |-> "add_to_favorites", request |-> r, had |-> TRUE]
           ELSE /\ requests' = [requests EXCEPT ![r].pc = "insert"]
                /\ op' = [name |-> "query", request |-> r]
                /\ UNCHANGED ret
        /\ UNCHANGED db
        /\ FavoritesUnchanged

\* db.session.add(favorite_recipe), db.session.commit() and the 200
InsertFavorite ==
    \E r \in DOMAIN requests :
        /\ requests[r].pc = "insert"
        /\ db' = [db EXCEPT !.favorite_recipes =
                     Append(@, [id |-> NextRowId(@), user_id |-> requests[r].user_id,
                                title |-> requests[r].title])]
        /\ requests' = [requests EXCEPT ![r].pc = "done"]
        /\ ret' = [status |-> 200, message |-> "Recipe added to favorites successfully"]
        /\ op' = [name |-> "add_to_favorites", request |-> r,
                  had |-> HasFavorite(db.favorite_recipes, requests[r].user_id,
                                      requests[r].title)]
        /\ FavoritesUnchanged

\* remove_from_favorites(recipe_id) of a user: one query and one delete
RemoveFromFavorites ==
    \E u \in Users, recipe_id \in 1..MaxFavoriteRequests :
        LET rows == db.favorite_recipes
            found == \E k \in 1..Len(rows) : rows[k].id = recipe_id /\ rows[k].user_id = u
        IN  /\ db' = [db EXCEPT !.favorite_recipes =
                         SelectSeq(rows, LAMBDA row : ~(row.id = recipe_id /\ row.user_id = u))]
            /\ ret' = IF found
                      THEN [status |-> 200,
                            message |-> "Recipe removed from favorites successfully"]
                      ELSE [status |-> 404, message |-> "Favorite recipe not found"]
            /\ op' = [name |-> "remove_from_favorites", user_id |-> u,
                      recipe_id |-> recipe_id]
            /\ UNCHANGED requests
            /\ FavoritesUnchanged

NextFavorites ==
    \/ BeginAddToFavorites
    \/ QueryFavorite
    \/ InsertFavorite
    \/ RemoveFromFavorites

SpecFavorites == Init /\ [][NextFavorites]_vars

\* C29: after any interleaving of add_to_favorites and remove_from_favorites
\* requests no user has two favorite rows with the same title, and an add for
\* a title the user has at the time of the reply is answered with 409.
C29_NoDuplicateFavorites ==
    /\ \A k, l \in 1..Len(db.favorite_recipes) :
           (db.favorite_recipes[k].user_id = db.favorite_recipes[l].user_id
            /\ db.favorite_recipes[k].title = db.favorite_recipes[l].title) => k = l
    /\ (op.name = "add_to_favorites" /\ op.had) => ret.status = 409


----------------------------------------------------------------------------
(* The shared MCP validator and its server process                         *)

\* two entries of the server's knowledge base, in the order of the dictionary;
\* confidences are in hundredths
common_terms ==
    <<[term |-> <<"v", "e", "g", "a", "n">>, category |-> "dietary", confidence |-> 98,
       description |-> "Plant-based diet excluding all animal products"],
      [term |-> <<"o", "v", "e", "n">>, category |-> "equipment", confidence |-> 95,
       description |-> "Kitchen oven for baking and roasting"]>>

\* the positions of the terms found in a lowered query
TermsIn(query_lower) ==
    {k \in 1..Len(common_terms) : IsSubSeq(common_terms[k].term, query_lower)}

\* AnthropicMCPServer.validate_entry for an empty query and for a query that
\* holds a term of the knowledge base (other queries go to the model)
validate_entry(query, category) ==
    LET Validation(query_lower) ==
            LET found == TermsIn(query_lower)
                matches == {k \in found : common_terms[k].category = category}
                best_match ==
                    common_terms[CHOOSE k \in matches :
                        \A l \in matches :
                            \/ common_terms[l].confidence < common_terms[k].confidence
                            \/ (common_terms[l].confidence = common_terms[k].confidence
                                /\ k <= l)]
                first == common_terms[CHOOSE k \in found : \A l \in found : k <= l]
            IN  CASE Len(query_lower) = 0 ->
                       [isValid |-> FALSE, confidence |-> 0,
                        reason |-> <<"Empty query provided">>,
                        sources |-> <<>>, suggestions |-> <<>>, category_match |-> FALSE]
                  [] Len(query_lower) > 0 /\ matches # {} ->
                       [isValid |-> TRUE, confidence |-> best_match.confidence,
                        reason |-> <<"Found match: ", best_match.description>>,
                        sources |-> <<[title |-> <<"Knowledge base entry for ", Str(query)>>,
                                       url |-> <<"https://example.com/", Str(query)>>]>>,
                        suggestions |-> <<>>, category_match |-> TRUE]
                  [] Len(query_lower) > 0 /\ matches = {} /\ found # {} ->
                       [isValid |-> FALSE, confidence |-> 30,
                        reason |-> <<"Term found but not in ", category, " category">>,
                        sources |-> <<>>,
                        suggestions |-> << <<"Try using '", Str(first.term),
                                             "' in the correct category">> >>,
                        category_match |-> FALSE]
    IN  Validation(Strip(Lower(query)))

\* AnthropicMCPServer.perform_web_search
perform_web_search(query, max_results) ==
    LET Results(found) ==
            LET hits == SelectSeq(common_terms, LAMBDA d : IsSubSeq(d.term, found))
                matching_terms ==
                    IF Len(hits) = 0
                    THEN <<[title |-> <<"Search results for: ", Str(query)>>,
                            url |-> <<"https://example.com/search?q=", Str(query)>>,
                            source |-> "Simulated Search Engine", relevance_score |-> 70]>>
                    ELSE [k \in 1..Len(hits) |->
                             [title |-> <<"Information about ", Str(hits[k].term)>>,
                              url |-> <<"https://example.com/", Str(hits[k].term)>>,
                              source |-> "CulinaMind Knowledge Base",
                              relevance_score |-> hits[k].confidence]]
            IN  SubSeq(matching_terms, 1,
                       IF max_results < Len(matching_terms) THEN max_results
                       ELSE Len(matching_terms))
    IN  Results(Lower(query))

\* the requests of the client
init_request ==
    [jsonrpc |-> "2.0", id |-> 1, method |-> "initialize",
     params |-> [protocolVersion |-> "2024-11-05"]]

validate_request(input_text, category) ==
    [jsonrpc |-> "2.0", id |-> 2, method |-> "tools/call",
     params |-> [name |-> "validate_entry",
                 arguments |-> [query |-> input_text, category |-> category]]]

search_request(query, max_results) ==
    [jsonrpc |-> "2.0", id |-> 3, method |-> "tools/call",
     params |-> [name |-> "web_search",
                 arguments |-> [query |-> query, max_results |-> max_results]]]

\* AnthropicMCPServer.handle_mcp_request for the three requests of the client;
\* the text of a content item is given as the value json.dumps encodes, and
\* the timestamp of a search answer is left out
handle_mcp_request(request) ==
    IF request.method = "initialize"
    THEN [jsonrpc |-> "2.0", id |-> request.id,
          result |-> [protocolVersion |-> "2024-11-05",
                      serverInfo |-> "culinamind-web-search"]]
    ELSE IF request.params.name = "web_search"
    THEN [jsonrpc |-> "2.0", id |-> request.id,
          result |-> [content |->
              <<[type |-> "text",
                 text |-> [query |-> request.params.arguments.query,
                           results |-> perform_web_search(
                               request.params.arguments.query,
                               request.params.arguments.max_results)]]>>]]
    ELSE [jsonrpc |-> "2.0", id |-> request.id,
          result |-> [content |->
              <<[type |-> "text",
                 text |-> validate_entry(request.params.arguments.query,
                                         request.params.arguments.category)]>>]]

\* what AnthropicMCPValidator.validate_entry returns for a response
ValidationOf(response) ==
    IF "result" \in DOMAIN response /\ "content" \in DOMAIN response.result
    THEN [type |-> "dict", value |-> response.result.content[1].text]
    ELSE [type |-> "dict",
          value |-> [isValid |-> FALSE, confidence |-> 0, reason |-> <<"MCP server error">>,
                     sources |-> <<>>, suggestions |-> <<>>, category_match |-> FALSE]]

\* what AnthropicMCPValidator.web_search returns for a response
SearchResultsOf(response) ==
    IF "result" \in DOMAIN response /\ "content" \in DOMAIN response.result
    THEN [type |-> "list",
          value |-> IF "results" \in DOMAIN response.result.content[1].text
                    THEN response.result.content[1].text.results
                    ELSE <<>>]
    ELSE [type |-> "list", value |-> <<>>]

\* what a call returns when _send_request raises
RaisedResult(name, message) ==
    IF name = "validate_entry"
    THEN [type |-> "dict",
          value |-> [isValid |-> FALSE, confidence |-> 0,
                     reason |-> <<"Validation error: ", message>>,
                     sources |-> <<>>, suggestions |-> <<>>, category_match |-> FALSE]]
    ELSE [type |-> "list", value |-> <<>>]

\* the except block of _send_request_direct: the flag is cleared and the
\* current server process, if any, is terminated and forgotten
Terminated(validator) ==
    [validator EXCEPT !.initialized = FALSE, !.server_process = None]

\* the process of a validator that has one
ServerProcess(validator) == validator.server_process[1]

\* stdin.write and flush of one line
Written(validator, request) ==
    [validator EXCEPT !.server_process =
        Some([ServerProcess(validator) EXCEPT !.stdin = Append(@, request)])]

\* stdout.readline took the first line
LineTaken(validator) ==
    [validator EXCEPT !.server_process =
        Some([ServerProcess(validator) EXCEPT !.stdout = Tail(@)])]

\* the texts, categories and result counts of the calls
McpQueries == {<<"v", "e", "g", "a", "n">>, <<"o", "v", "e", "n">>}

McpCategories == {"dietary", "equipment"}

McpMaxResults == {5}

McpCallIds == 1..MaxMcpCalls

McpUnchanged ==
    UNCHANGED <<files, mtime, context_cache, disk_ok, now, appended, saved_profile,
                peer_cache, otp_store, db>>

\* a call has ended with a raised exception
Raise(r, message) ==
    /\ anthropic_mcp_validator' = Terminated(anthropic_mcp_validator)
    /\ requests' = [requests EXCEPT ![r].pc = "done"]
    /\ ret' = RaisedResult(requests[r].name, message)
    /\ op' = [name |-> requests[r].name, call |-> r, raised |-> TRUE,
              request |-> requests[r].request]

\* validate_entry(input_text, category) is called: the request is built
BeginValidateEntry ==
    \E r \in McpCallIds \ DOMAIN requests, input_text \in McpQueries,
       category \in McpCategories :
        /\ \A q \in McpCallIds : q < r => q \in DOMAIN requests
        /\ requests' = (r :> [pc |-> "start", name |-> "validate_entry", pid |-> 0,
                              request |-> validate_request(input_text, category)])
                       @@ requests
        /\ op' = [name |-> "begin", call |-> r]
        /\ UNCHANGED <<anthropic_mcp_validator, ret>>
        /\ McpUnchanged

\* web_search(query, max_results) is called: the request is built
BeginWebSearch ==
    \E r \in McpCallIds \ DOMAIN requests, query \in McpQueries,
       max_results \in McpMaxResults :
        /\ \A q \in McpCallIds : q < r => q \in DOMAIN requests
        /\ requests' = (r :> [pc |-> "start", name |-> "web_search", pid |-> 0,
                              request |-> search_request(query, max_results)])
                       @@ requests
        /\ op' = [name |-> "begin", call |-> r]
        /\ UNCHANGED <<anthropic_mcp_validator, ret>>
        /\ McpUnchanged

\* _start_server: a process is launched when there is none
StartServer ==
    \E r \in DOMAIN requests :
        /\ requests[r].pc = "start"
        /\ anthropic_mcp_validator' =
               IF IsNone(anthropic_mcp_validator.server_process)
               THEN [server_process |->
                         Some([pid |-> anthropic_mcp_validator.started + 1,
                               stdin |-> <<>>, stdout |-> <<>>]),
                     initialized |-> FALSE,
                     started |-> anthropic_mcp_validator.started + 1]
               ELSE anthropic_mcp_validator
        /\ requests' = [requests EXCEPT ![r].pc = "initialize"]
        /\ op' = [name |-> "_start_server", call |-> r]
        /\ UNCHANGED ret
        /\ McpUnchanged

\* _initialize_server up to the write of the initialize request
InitializeServer ==
    \E r \in DOMAIN requests :
        /\ requests[r].pc = "initialize"
        /\ IF anthropic_mcp_validator.initialized
           THEN /\ requests' = [requests EXCEPT ![r].pc = "write"]
                /\ op' = [name |-> "_initialize_server", call |-> r]
                /\ UNCHANGED <<anthropic_mcp_validator, ret>>
           ELSE IF IsNone(anthropic_mcp_validator.server_process)
           THEN Raise(r, "MCP server is not running")
           ELSE /\ anthropic_mcp_validator' = Written(anthropic_mcp_validator, init_request)
                /\ requests' = [requests EXCEPT ![r].pc = "init_read",
                                   ![r].pid = ServerProcess(anthropic_mcp_validator).pid]
                /\ op' = [name |-> "_initialize_server", call |-> r]
                /\ UNCHANGED ret
        /\ McpUnchanged

\* _send_request_direct up to the write of the request of the call
WriteRequest ==
    \E r \in DOMAIN requests :
        /\ requests[r].pc = "write"
        /\ IF IsNone(anthropic_mcp_validator.server_process)
           THEN Raise(r, "MCP server is not running")
           ELSE /\ anthropic_mcp_validator' =
                       Written(anthropic_mcp_validator, requests[r].request)
                /\ requests' = [requests EXCEPT ![r].pc = "read",
                                   ![r].pid = ServerProcess(anthropic_mcp_validator).pid]
                /\ op' = [name |-> "_send_request_direct", call |-> r]
                /\ UNCHANGED ret
        /\ McpUnchanged

\* a call waits for a line of the process it wrote to
Reads(r) ==
    /\ requests[r].pc \in {"init_read", "read"}
    /\ ~IsNone(anthropic_mcp_validator.server_process)
    /\ ServerProcess(anthropic_mcp_validator).pid = requests[r].pid

\* main of the server: one line is read, handled and answered with one line
ServerMain ==
    /\ ~IsNone(anthropic_mcp_validator.server_process)
    /\ Len(ServerProcess(anthropic_mcp_validator).stdin) > 0
    /\ anthropic_mcp_validator' =
           [anthropic_mcp_validator EXCEPT !.server_process =
               Some([ServerProcess(anthropic_mcp_validator) EXCEPT
                        !.stdin = Tail(@),
                        !.stdout = Append(@, handle_mcp_request(Head(
                                       ServerProcess(anthropic_mcp_validator).stdin)))])]
    /\ op' = [name |-> "main"]
    /\ UNCHANGED <<requests, ret>>
    /\ McpUnchanged

\* readline in _initialize_server returned a line: the flag is set
ReadInitResponse ==
    \E r \in DOMAIN requests :
        /\ Reads(r)
        /\ requests[r].pc = "init_read"
        /\ Len(ServerProcess(anthropic_mcp_validator).stdout) > 0
        /\ anthropic_mcp_validator' =
               [LineTaken(anthropic_mcp_validator) EXCEPT !.initialized = TRUE]
        /\ requests' = [requests EXCEPT ![r].pc = "write"]
        /\ op' = [name |-> "_initialize_server", call |-> r]
        /\ UNCHANGED ret
        /\ McpUnchanged

\* readline in _send_request_direct returned a line: the call returns
ReadResponse ==
    \E r \in DOMAIN requests :
        /\ Reads(r)
        /\ requests[r].pc = "read"
        /\ Len(ServerProcess(anthropic_mcp_validator).stdout) > 0
        /\ \E response_line \in {Head(ServerProcess(anthropic_mcp_validator).stdout)} :
              /\ ret' = IF requests[r].name = "validate_entry"
                        THEN ValidationOf(response_line)
                        ELSE SearchResultsOf(response_line)
              /\ op' = [name |-> requests[r].name, call |-> r, raised |-> FALSE,
                        request |-> requests[r].request, line |-> response_line]
        /\ anthropic_mcp_validator' = LineTaken(anthropic_mcp_validator)
        /\ requests' = [requests EXCEPT ![r].pc = "done"]
        /\ McpUnchanged

\* no line within 15 seconds
ResponseTimeout ==
    \E r \in DOMAIN requests :
        /\ Reads(r)
        /\ Len(ServerProcess(anthropic_mcp_validator).stdout) = 0
        /\ Raise(r, "MCP server response timeout")
        /\ McpUnchanged

\* readline on the pipe of a terminated process returns the empty string
ReadEndOfFile ==
    \E r \in DOMAIN requests :
        /\ requests[r].pc \in {"init_read", "read"}
        /\ ~Reads(r)
        /\ Raise(r, "No response from MCP server")
        /\ McpUnchanged

NextMcp ==
    \/ BeginValidateEntry
    \/ BeginWebSearch
    \/ StartServer
    \/ InitializeServer
    \/ WriteRequest
    \/ ServerMain
    \/ ReadInitResponse
    \/ ReadResponse
    \/ ResponseTimeout
    \/ ReadEndOfFile

SpecMcp == Init /\ [][NextMcp]_vars

\* C30: under any interleaving of concurrent validate_entry and web_search
\* calls on the shared validator, the line a call reads is the server's answer
\* to the request of that call, and the call returns the result computed for
\* its own arguments.
C30_CallReadsOwnResponse ==
    (op.name \in {"validate_entry", "web_search"} /\ ~op.raised) =>
        /\ op.line = handle_mcp_request(op.request)
        /\ ret = IF op.name = "validate_entry"
                 THEN [type |-> "dict",
                       value |-> validate_entry(op.request.params.arguments.query,
                                                op.request.params.arguments.category)]
                 ELSE [type |-> "list",
                       value |-> perform_web_search(op.request.params.arguments.query,
                                                    op.request.params.arguments.max_results)]

====
